---- MODULE Spec2Model ----
(***************************************************************************)
(* Model of the NewEngine runtime core (neocore2/crates/newengine-core).   *)
(*                                                                         *)
(*  - Engine: module registration, start, the fixed-timestep step(),       *)
(*    external event dispatch, shutdown (engine.rs).                       *)
(*  - Resources: the TypeId-keyed registry (module/resources.rs).          *)
(*  - Bus: the single-consumer command queue and its ConsumerGuard        *)
(*    (bus.rs); consumer calls are interleaved per thread, one atomic      *)
(*    access or one channel operation per step.                            *)
(*  - PluginManager: directory scan, lifecycle batches, shutdown           *)
(*    (plugins.rs); one loop iteration per step.                           *)
(*  - HostContext and the console: the service registry with its          *)
(*    generation counter (plugins/host_context.rs) and the ConsoleRuntime  *)
(*    behind the engine.command service (console/mod.rs).                  *)
(*  - AssetStore: load() and the budgeted pump() of the asset crate        *)
(*    (crates/newengine-assets/src/store.rs); load() is one step, pump()   *)
(*    one step per lock region, so that loads of other threads interleave. *)
(*  - engine_core: the Engine of that crate with its winit EngineApp       *)
(*    (engine_core/src/engine.rs); one winit callback per step.            *)
(*  - platform-winit: App and run_winit_app driving Engine::step           *)
(*    (crates/newengine-platform-winit/src/app.rs).                        *)
(*                                                                         *)
(* Time is counted in whole units; fixed_dt is FixedDt units.  A module    *)
(* hook is an environment step: every invocation chooses whether the hook  *)
(* requests exit through its ModuleCtx and which EngineResult it returns.  *)
(***************************************************************************)
EXTENDS Integers, Sequences, FiniteSets, TLC

\* ------------------------------------------------------------------ bounds
NumModules == 3
FixedDt == 2
MaxFrames == 2
NumEvents == 2
NumTypes == 2
NumValues == 2
NumThreads == 2
MaxCap == 1
MaxSends == 2
NumFiles == 2
MaxLoads == 2
\* the generation counter is followed up to this value
MaxGeneration == 3
NumKeys == 4
MaxBudget == 2
MaxPending == 2
NumProducers == 2

\* ------------------------------------------------------- program constants
\* engine.rs:88  `self.fixed_dt * 8.0`
MaxFixedSteps == 8

Events == 1..NumEvents
\* a stall of 10 s at fixed_dt = 1/60 s is 600 fixed steps long
StallDt == 600 * FixedDt
DtValues == (0..(3 * FixedDt)) \cup {StallDt}

\* error.rs: enum EngineError { ExitRequested, Other(String) }
\* an error is <<variant, message>>
ErrExitRequested == <<"ExitRequested", "">>
ErrOther(msg) == <<"Other", msg>>
NoErr == <<"none", "">>
\* errors a module hook may return
HookErrors == {ErrExitRequested, ErrOther("module failure")}

\* what one invocation of a module hook does: it may call
\* ModuleCtx::request_exit and returns Ok(()) or Err(e)
Outcomes == [exit : BOOLEAN, err : {NoErr} \cup HookErrors]

Min(a, b) == IF a <= b THEN a ELSE b

VARIABLES
    modules,        \* Engine.modules: Vec<Box<dyn Module>>, in push order
    exit_requested, \* Engine.exit_requested
    frame_index,    \* Engine.frame_index
    acc,            \* Engine.acc, in time units
    pc,             \* position inside the running Engine call, "idle" between calls
    idx,            \* loop counter of the running `for m in modules`
    fixed_steps,    \* local `fixed_steps` of step()
    dt,             \* local `dt` of step()
    trace,          \* hooks invoked by the current (or last) Engine call
    result,         \* value returned by the last Engine call
    acc_in,         \* history: acc when the running (or last) step() was entered, else 0
    after_exit,     \* history: a hook of this call was invoked with the exit flag already set
    event,          \* the `event` argument of the running (or last) dispatch_external_event
    map,            \* Resources.map: set of entries [k |-> TypeId, v |-> value]
    rlast,          \* value returned by the last Resources call
    owner,          \* Bus.consumer_guard.owner: AtomicU64, 0 while unclaimed
    queue,          \* items in the channel behind Bus.tx / Bus.rx, oldest first
    cap,            \* capacity of the channel given to Bus::new, 0 for an unbounded one
    debug,          \* cfg!(debug_assertions) of the build
    th,             \* per thread: position inside its running consumer call
    waiting,        \* number of producers waiting inside Bus::send
    sent,           \* history: number of items the channel has accepted
    takers,         \* history: consumer identities that received an item
    blast,          \* value returned by the last completed Bus call
    plugins,        \* PluginManager.plugins: Vec<LoadedPlugin>, in push order
    started,        \* PluginManager.started
    ids,            \* PluginManager.ids: HashSet<String>
    ppc,            \* position inside the running PluginManager call
    pidx,           \* loop counter of the running PluginManager call
    libs,           \* local `libs` of load_dir: the sorted candidate paths
    dir,            \* the directory given to the running (or last) load_dir
    plog,           \* what the current (or last) PluginManager call did, in order
    presult,        \* value returned by the last PluginManager call
    pbefore,        \* history: plugins and ids when the running load_dir or shutdown was entered
    loads,          \* number of load_dir calls made
    services,       \* HostContext.services: HashMap<String, Arc<ServiceV1Dyn>>
    services_generation, \* HostContext.services_generation
    rt_init,        \* whether the console's RT cell holds a ConsoleRuntime
    dyn_cmds,       \* ConsoleRuntime.dyn_cmds: BTreeMap<String, DynCommand>
    method_cache,   \* ConsoleRuntime.method_cache
    rt_exit_requested, \* ConsoleRuntime.exit_requested
    cpc,            \* "idle", or "stuck" once a console call can no longer return
    clast,          \* the last CommandService call in short: its method, the table that
                    \* resolved the line of an exec, the reply's tag and `ok`, and the
                    \* number of service calls made
    a_state,        \* StoreInner.state: per AssetId, absent ids read as Unloaded
    blobs,          \* StoreInner.blobs: the ids that have a blob
    a_queue,        \* StoreInner.queue: VecDeque<PendingRequest>, oldest first
    a_events,       \* StoreInner.events: VecDeque<AssetEvent>, oldest first
    importers_by_ext, \* StoreInner.importers_by_ext: set of entries [k |-> ext, v |-> list]
    sources,        \* whether StoreInner.sources holds a source
    apc,            \* position inside the running pump(), "idle" between calls
    steps_left,     \* local `steps_left` of pump()
    req,            \* local `req` of pump(): the request popped last
    budget,         \* history: `budget.steps` of the running pump(), 0 between calls
    popped,         \* history: number of requests the running pump() has dequeued
    enq,            \* history: the ids of the requests enqueued, in order
    deq,            \* history: the ids of the requests dequeued, in order
    alast,          \* value returned by the last AssetStore::load, and whether that
                    \* call enqueued a request
    ec_modules,     \* engine_core Engine.modules, in registration order
    ec_events,      \* engine_core BusImpl.events: VecDeque<EngineEvent>, oldest first
    ec_shutdown,    \* engine_core Engine.shutdown: the ShutdownFlag
    ec_acc,         \* engine_core FixedStep.acc
    ec_window,      \* EngineApp.window is Some
    ec_started,     \* EngineApp.started
    ec_phase,       \* "new", "run" while the event loop runs, "exited" once
                    \* event_loop.exit() has been called
    shut_runs,      \* history: invocations of each module's shutdown hook
    shut_last,      \* history: the hooks run by the last modules_shutdown call
    ec_late,        \* history: modules called again after their shutdown hook
    w_window,       \* winit App.window is Some
    w_phase,        \* where run_winit_app is: "new", "run", "exiting" once
                    \* event_loop.exit() has been called, "returned"
    w_frames,       \* history: the Ok results of step() the loop has matched
    w_shutdowns,    \* history: the Engine::shutdown calls run_winit_app has made
    by,             \* history: for each item the channel took, the producer that
                    \* sent it and its number among that producer's items
    blocked         \* the items of the Sender::send calls that wait for room

engine_vars == <<modules, exit_requested, frame_index, acc, pc, idx, fixed_steps,
                 dt, trace, result, acc_in, after_exit, event>>
res_vars == <<map, rlast>>
bus_vars == <<owner, queue, cap, debug, th, waiting, sent, takers, blast>>
plugin_vars == <<plugins, started, ids, ppc, pidx, libs, dir, plog, presult, pbefore,
                 loads>>
console_vars == <<services, services_generation, rt_init, dyn_cmds, method_cache,
                  rt_exit_requested, cpc, clast>>
asset_vars == <<a_state, blobs, a_queue, a_events, importers_by_ext, sources, apc,
                steps_left, req, budget, popped, enq, deq, alast>>
core_vars == <<ec_modules, ec_events, ec_shutdown, ec_acc, ec_window, ec_started,
               ec_phase, shut_runs, shut_last, ec_late>>
winit_vars == <<w_window, w_phase, w_frames, w_shutdowns>>
prod_vars == <<by, blocked>>
ext_vars == <<asset_vars, core_vars, winit_vars, prod_vars>>
host_vars == <<engine_vars, res_vars, bus_vars, plugin_vars, console_vars>>
vars == <<modules, exit_requested, frame_index, acc, pc, idx, fixed_steps,
          dt, trace, result, acc_in, after_exit, event, map, rlast,
          bus_vars, plugin_vars, console_vars, ext_vars>>

\* ------------------------------------------------------------------ Engine

Range(s) == {s[k] : k \in 1..Len(s)}

\* a trace entry: hook `h` of module `m` was invoked with argument `a`
\* (pass number / fixed_steps of the Frame, or the event) and returned `e`
Entry(h, m, a, e) == [hook |-> h, module |-> m, arg |-> a, err |-> e]

Result(op, tag, e) ==
    [op |-> op, tag |-> tag, err |-> e, frame_index |-> 0, dt |-> 0,
     fixed_steps |-> 0, alpha |-> 0]

\* Frame returned by step(); alpha is fixed_alpha * fixed_dt
FrameResult(fi, d, fs, a) ==
    [op |-> "step", tag |-> "Frame", err |-> NoErr, frame_index |-> fi, dt |-> d,
     fixed_steps |-> fs, alpha |-> a]

\* ModuleCtx::request_exit writes through `exit: &mut bool`
CtxExit(o) == exit_requested \/ o.exit

\* Engine::request_exit
RequestExit ==
    /\ pc = "idle"
    /\ ~exit_requested
    /\ exit_requested' = TRUE
    /\ UNCHANGED <<modules, frame_index, acc, pc, idx, fixed_steps, dt, trace,
                   result, acc_in, after_exit, event, map, rlast, bus_vars, plugin_vars, console_vars, ext_vars>>

\* variant: the module is pushed whatever its init returned
RegisteredAlways(ms, e) == Append(ms, Len(ms) + 1)

\* `module.init(&mut ctx)?; self.modules.push(module);` the list it leaves
Registered(ms, e) == IF e # NoErr THEN ms ELSE Append(ms, Len(ms) + 1)

\* Engine::register_module: init hook, then push.  The engine never inspects
\* a module, so the module handed over is named after the position it
\* takes in `modules` (a module whose init fails is dropped with its name).
RegisterModule(o) ==
    /\ pc = "idle"
    /\ Len(modules) < NumModules
    /\ trace' = <<Entry("init", Len(modules) + 1, 0, o.err)>>
    /\ exit_requested' = CtxExit(o)
    /\ IF o.err # NoErr
         THEN result' = Result("register_module", "Err", o.err)
         ELSE result' = Result("register_module", "Ok", NoErr)
    /\ modules' = Registered(modules, o.err)
    /\ acc_in' = 0
    /\ after_exit' = exit_requested
    /\ event' = 0
    /\ UNCHANGED <<frame_index, acc, pc, idx, fixed_steps, dt, map, rlast, bus_vars, plugin_vars, console_vars, ext_vars>>

\* variant: the hook's result is dropped
PropagatesNever(e) == FALSE

\* variant: only ExitRequested leaves the method
PropagatesOnlyExit(e) == e = ErrExitRequested

\* the `?` on a hook's EngineResult: an Err leaves the calling Engine method
Propagates(e) == e # NoErr

\* variant: the loop also ends as soon as the exit flag is set
LoopDoneOnExit(i) == i > Len(modules) \/ exit_requested

\* variant: the loop ends one element early
LoopDoneEarly(i) == i >= Len(modules)

\* `for m in &mut self.modules` has no element left at position i
LoopDone(i) == i > Len(modules)

\* one iteration of `for m in &mut self.modules { m.hook(&mut ctx, ..)?; }`
\* inside Engine method `op`: hook `h` of modules[idx] runs with argument `a`
InvokeHook(op, h, a, o) ==
    /\ ~LoopDone(idx)
    /\ trace' = Append(trace, Entry(h, modules[idx], a, o.err))
    /\ exit_requested' = CtxExit(o)
    /\ IF Propagates(o.err)
         THEN /\ pc' = "idle"
              /\ result' = Result(op, "Err", o.err)
              /\ idx' = 0
              /\ dt' = 0
              /\ fixed_steps' = 0
         ELSE /\ idx' = idx + 1
              /\ UNCHANGED <<pc, result, dt, fixed_steps>>
    /\ after_exit' = (after_exit \/ exit_requested)
    /\ UNCHANGED <<modules, frame_index, acc, acc_in, event, map, rlast, bus_vars, plugin_vars, console_vars, ext_vars>>

\* Engine::start
StartBegin ==
    /\ pc = "idle"
    /\ pc' = "start"
    /\ idx' = 1
    /\ trace' = <<>>
    /\ result' = Result("start", "Pending", NoErr)
    /\ acc_in' = 0
    /\ after_exit' = FALSE
    /\ event' = 0
    /\ UNCHANGED <<modules, exit_requested, frame_index, acc, fixed_steps, dt,
                   map, rlast, bus_vars, plugin_vars, console_vars, ext_vars>>

StartHook(o) ==
    /\ pc = "start"
    /\ InvokeHook("start", "start", 0, o)

StartDone ==
    /\ pc = "start"
    /\ LoopDone(idx)
    /\ pc' = "idle"
    /\ idx' = 0
    /\ result' = Result("start", "Ok", NoErr)
    /\ UNCHANGED <<modules, exit_requested, frame_index, acc, fixed_steps, dt,
                   trace, acc_in, after_exit, event, map, rlast, bus_vars, plugin_vars, console_vars, ext_vars>>

\* variant: no spiral-of-death guard
ClampAccUnbounded(a, d) == a + d

\* engine.rs:88  self.acc = (self.acc + dt).min(self.fixed_dt * 8.0)
ClampAcc(a, d) == Min(a + d, FixedDt * MaxFixedSteps)

\* variant: step() does not look at the exit flag
StepNeverRefused == FALSE

\* engine.rs:79  `if self.exit_requested { return Err(ExitRequested) }`
StepRefused == exit_requested

\* Engine::step, entry: exit check, dt, accumulator clamp
StepBegin(d) ==
    /\ pc = "idle"
    /\ trace' = <<>>
    /\ IF StepRefused
         THEN /\ result' = Result("step", "Err", ErrExitRequested)
              /\ acc_in' = acc
              /\ UNCHANGED <<acc, pc, idx, fixed_steps, dt>>
         ELSE /\ frame_index < MaxFrames
              /\ dt' = d
              /\ acc_in' = acc
              /\ acc' = ClampAcc(acc, d)
              /\ fixed_steps' = 0
              /\ idx' = 0
              /\ pc' = "fixed_head"
              /\ result' = Result("step", "Pending", NoErr)
    /\ after_exit' = FALSE
    /\ event' = 0
    /\ UNCHANGED <<modules, exit_requested, frame_index, map, rlast, bus_vars, plugin_vars, console_vars, ext_vars>>

\* variant: the update loop is left out
AfterFixedSkipsUpdate == "render"

\* phase entered when `while self.acc >= self.fixed_dt` ends
AfterFixed == "update"
\* phase entered when the update loop ends
AfterUpdate == "render"

\* variant: a pass needs more than one fixed step of accumulated time
FixedPassDueStrict(a) == a > FixedDt

\* `while self.acc >= self.fixed_dt`
FixedPassDue(a) == a >= FixedDt

\* Engine::step, `while self.acc >= self.fixed_dt` head and the pass prologue
FixedHead ==
    /\ pc = "fixed_head"
    /\ idx' = 1
    /\ IF FixedPassDue(acc)
         THEN /\ acc' = acc - FixedDt
              /\ fixed_steps' = fixed_steps + 1
              /\ pc' = "fixed_update"
         ELSE /\ pc' = AfterFixed
              /\ UNCHANGED <<acc, fixed_steps>>
    /\ UNCHANGED <<modules, exit_requested, frame_index, dt, trace, result,
                   acc_in, after_exit, event, map, rlast, bus_vars, plugin_vars, console_vars, ext_vars>>

FixedUpdateHook(o) ==
    /\ pc = "fixed_update"
    /\ InvokeHook("step", "fixed_update", fixed_steps, o)

FixedUpdateDone ==
    /\ pc = "fixed_update"
    /\ LoopDone(idx)
    /\ pc' = "fixed_head"
    /\ idx' = 0
    /\ UNCHANGED <<modules, exit_requested, frame_index, acc, fixed_steps, dt,
                   trace, result, acc_in, after_exit, event, map, rlast, bus_vars, plugin_vars, console_vars, ext_vars>>

UpdateHook(o) ==
    /\ pc = "update"
    /\ InvokeHook("step", "update", fixed_steps, o)

UpdateDone ==
    /\ pc = "update"
    /\ LoopDone(idx)
    /\ pc' = AfterUpdate
    /\ idx' = 1
    /\ UNCHANGED <<modules, exit_requested, frame_index, acc, fixed_steps, dt,
                   trace, result, acc_in, after_exit, event, map, rlast, bus_vars, plugin_vars, console_vars, ext_vars>>

RenderHook(o) ==
    /\ pc = "render"
    /\ InvokeHook("step", "render", fixed_steps, o)

\* variant: the counter is left as it is
NextFrameIndexStuck(fi) == fi

\* `self.frame_index.wrapping_add(1)`; the model's frames stay far below
\* the wrap at 2^64
NextFrameIndex(fi) == fi + 1

\* Engine::step, after the render loop: frame_index advances, Ok(frame)
RenderDone ==
    /\ pc = "render"
    /\ LoopDone(idx)
    /\ frame_index' = NextFrameIndex(frame_index)
    /\ result' = FrameResult(frame_index, dt, fixed_steps, acc)
    /\ pc' = "idle"
    /\ idx' = 0
    /\ dt' = 0
    /\ fixed_steps' = 0
    /\ UNCHANGED <<modules, exit_requested, acc, trace, acc_in, after_exit,
                   event, map, rlast, bus_vars, plugin_vars, console_vars, ext_vars>>

\* Engine::dispatch_external_event
DispatchBegin(ev) ==
    /\ pc = "idle"
    /\ pc' = "event"
    /\ event' = ev
    /\ idx' = 1
    /\ trace' = <<>>
    /\ result' = Result("dispatch_external_event", "Pending", NoErr)
    /\ acc_in' = 0
    /\ after_exit' = FALSE
    /\ UNCHANGED <<modules, exit_requested, frame_index, acc, fixed_steps, dt,
                   map, rlast, bus_vars, plugin_vars, console_vars, ext_vars>>

EventHook(o) ==
    /\ pc = "event"
    /\ InvokeHook("dispatch_external_event", "on_external_event", event, o)

EventDone ==
    /\ pc = "event"
    /\ LoopDone(idx)
    /\ pc' = "idle"
    /\ idx' = 0
    /\ result' = Result("dispatch_external_event", "Ok", NoErr)
    /\ UNCHANGED <<modules, exit_requested, frame_index, acc, fixed_steps, dt,
                   trace, acc_in, after_exit, event, map, rlast, bus_vars, plugin_vars, console_vars, ext_vars>>

\* variant: iter_mut() without rev()
FwdIndex(k) == k

\* position in `modules` visited by the k-th iteration of
\* `self.modules.iter_mut().rev()`
RevIndex(k) == Len(modules) - k + 1

\* Engine::shutdown
ShutdownBegin ==
    /\ pc = "idle"
    /\ pc' = "shutdown"
    /\ idx' = 1
    /\ trace' = <<>>
    /\ result' = Result("shutdown", "Pending", NoErr)
    /\ acc_in' = 0
    /\ after_exit' = FALSE
    /\ event' = 0
    /\ UNCHANGED <<modules, exit_requested, frame_index, acc, fixed_steps, dt,
                   map, rlast, bus_vars, plugin_vars, console_vars, ext_vars>>

\* `let _ = m.shutdown(&mut ctx);` - the hook's result is dropped
ShutdownHook(o) ==
    /\ pc = "shutdown"
    /\ ~LoopDone(idx)
    /\ trace' = Append(trace, Entry("shutdown", modules[RevIndex(idx)], 0, o.err))
    /\ exit_requested' = CtxExit(o)
    /\ idx' = idx + 1
    /\ after_exit' = (after_exit \/ exit_requested)
    /\ UNCHANGED <<modules, frame_index, acc, pc, fixed_steps, dt, result,
                   acc_in, event, map, rlast, bus_vars, plugin_vars, console_vars, ext_vars>>

ShutdownDone ==
    /\ pc = "shutdown"
    /\ LoopDone(idx)
    /\ pc' = "idle"
    /\ idx' = 0
    /\ result' = Result("shutdown", "Ok", NoErr)
    /\ UNCHANGED <<modules, exit_requested, frame_index, acc, fixed_steps, dt,
                   trace, acc_in, after_exit, event, map, rlast, bus_vars, plugin_vars, console_vars, ext_vars>>

\* --------------------------------------------------------------- Resources

Types == 1..NumTypes
Values == 1..NumValues
\* the `name: &'static str` arguments of get_required / take_required
Names == {"window", "renderer"}

\* HashMap::contains_key
MapContains(m, k) == \E e \in m : e.k = k

\* variant: the old entry of key k stays
MapInsertKeepsOld(m, k, v) == m \cup {[k |-> k, v |-> v]}

\* HashMap::insert: the entry of key k is replaced
MapInsert(m, k, v) == {e \in m : e.k # k} \cup {[k |-> k, v |-> v]}

\* variant: the entry stays in the map
MapRemoveNothing(m, k) == m

\* HashMap::remove
MapRemove(m, k) == {e \in m : e.k # k}

\* Option<T>
None == [tag |-> "None", v |-> 0]
Some(v) == [tag |-> "Some", v |-> v]

\* HashMap::get followed by the downcast to T (the key is T's TypeId, so
\* the downcast of a stored value succeeds)
MapGet(m, k) ==
    IF MapContains(m, k) THEN Some((CHOOSE e \in m : e.k = k).v) ELSE None

\* EngineError::Other("resource already exists".to_string())
AlreadyExistsError == ErrOther("resource already exists")

\* variant: the message leaves the name out
MissingErrorNoName(name) == ErrOther("required resource missing")

\* EngineError::Other(format!("required resource missing: {name}"))
MissingError(name) == ErrOther("required resource missing: " \o name)

\* value returned by a Resources call `op` on type k; `before` is history:
\* what the map held for k when the call was made
RRet(op, k, arg, name, tag, v, e) ==
    [op |-> op, k |-> k, arg |-> arg, name |-> name, tag |-> tag, v |-> v, err |-> e,
     before |-> MapGet(map, k)]

\* Resources::insert
Insert(k, v) ==
    /\ map' = MapInsert(map, k, v)
    /\ rlast' = RRet("insert", k, v, "", "Unit", 0, NoErr)
    /\ UNCHANGED <<engine_vars, bus_vars, plugin_vars, console_vars, ext_vars>>

\* variant: the occupied slot is overwritten before the error is returned
InsertOnceOverwrites(m, k, v) ==
    IF MapContains(m, k)
      THEN [map |-> MapInsert(m, k, v), tag |-> "Err", err |-> AlreadyExistsError]
      ELSE [map |-> MapInsert(m, k, v), tag |-> "Ok", err |-> NoErr]

\* Resources::insert_once: the map and the result it leaves
InsertOnceOutcome(m, k, v) ==
    IF MapContains(m, k)
      THEN [map |-> m, tag |-> "Err", err |-> AlreadyExistsError]
      ELSE [map |-> MapInsert(m, k, v), tag |-> "Ok", err |-> NoErr]

InsertOnce(k, v) ==
    /\ map' = InsertOnceOutcome(map, k, v).map
    /\ rlast' = RRet("insert_once", k, v, "", InsertOnceOutcome(map, k, v).tag, 0,
                     InsertOnceOutcome(map, k, v).err)
    /\ UNCHANGED <<engine_vars, bus_vars, plugin_vars, console_vars, ext_vars>>

\* Resources::get
Get(k) ==
    /\ rlast' = RRet("get", k, 0, "", MapGet(map, k).tag, MapGet(map, k).v, NoErr)
    /\ UNCHANGED map
    /\ UNCHANGED <<engine_vars, bus_vars, plugin_vars, console_vars, ext_vars>>

\* Resources::get_mut; through the returned `&mut T` the caller leaves w in
\* the slot (w equal to the stored value: the caller only reads)
GetMut(k, w) ==
    /\ rlast' = RRet("get_mut", k, 0, "", MapGet(map, k).tag, MapGet(map, k).v, NoErr)
    /\ map' = IF MapContains(map, k) THEN MapInsert(map, k, w) ELSE map
    /\ UNCHANGED <<engine_vars, bus_vars, plugin_vars, console_vars, ext_vars>>

\* Option::ok_or_else of get_required / take_required
OkOrMissing(opt, name) ==
    IF opt.tag = "Some"
      THEN [tag |-> "Ok", v |-> opt.v, err |-> NoErr]
      ELSE [tag |-> "Err", v |-> 0, err |-> MissingError(name)]

\* Resources::get_required
GetRequired(k, name) ==
    /\ rlast' = RRet("get_required", k, 0, name, OkOrMissing(MapGet(map, k), name).tag,
                     OkOrMissing(MapGet(map, k), name).v,
                     OkOrMissing(MapGet(map, k), name).err)
    /\ UNCHANGED map
    /\ UNCHANGED <<engine_vars, bus_vars, plugin_vars, console_vars, ext_vars>>

\* Resources::contains
Contains(k) ==
    /\ rlast' = RRet("contains", k, 0, "", IF MapContains(map, k) THEN "true" ELSE "false",
                     0, NoErr)
    /\ UNCHANGED map
    /\ UNCHANGED <<engine_vars, bus_vars, plugin_vars, console_vars, ext_vars>>

\* Resources::remove
Remove(k) ==
    /\ rlast' = RRet("remove", k, 0, "", MapGet(map, k).tag, MapGet(map, k).v, NoErr)
    /\ map' = MapRemove(map, k)
    /\ UNCHANGED <<engine_vars, bus_vars, plugin_vars, console_vars, ext_vars>>

\* Resources::take_required
TakeRequired(k, name) ==
    /\ rlast' = RRet("take_required", k, 0, name, OkOrMissing(MapGet(map, k), name).tag,
                     OkOrMissing(MapGet(map, k), name).v,
                     OkOrMissing(MapGet(map, k), name).err)
    /\ map' = MapRemove(map, k)
    /\ UNCHANGED <<engine_vars, bus_vars, plugin_vars, console_vars, ext_vars>>

\* --------------------------------------------------------------------- Bus

Threads == 1..NumThreads
\* capacities of the channel handed to Bus::new; 0 stands for unbounded()
Capacities == 0..MaxCap

\* consumer_id(): the hash of the calling thread's id, never 0; threads are
\* named by that value
ConsumerId(t) == t

\* a thread outside any consumer call; of a running call: its position,
\* the items its drain has collected, and as history whether no item had
\* been received from the channel when the call was entered
Idle == [pc |-> "idle", op |-> "none", out |-> <<>>, fresh |-> FALSE]

\* Bus::new: the guard starts unclaimed; ConsumerGuard::new
BusNew(c, d) ==
    /\ owner = 0
    /\ queue = <<>>
    /\ cap = c
    /\ debug = d
    /\ th = [t \in Threads |-> Idle]
    /\ waiting = 0
    /\ sent = 0
    /\ takers = {}
    /\ blast = [op |-> "new", tag |-> "Ok", v |-> 0]

\* value returned by the Bus call `op`
BRet(op, tag, v) == [op |-> op, tag |-> tag, v |-> v]

\* variant: an unbounded channel is taken for one without any slot
HasRoomBoundedOnly(q, c) == c # 0 /\ Len(q) < c

\* the channel accepts one more item without waiting
HasRoom(q, c) == c = 0 \/ Len(q) < c

\* variant: the new item goes in front of the waiting ones
EnqueueInFront ==
    /\ queue' = <<sent + 1>> \o queue
    /\ sent' = sent + 1

\* the channel takes the item: items are named by the order of acceptance
Enqueue ==
    /\ queue' = Append(queue, sent + 1)
    /\ sent' = sent + 1

\* Bus::try_send by any producer: Sender::try_send(ev).is_ok()
TrySend ==
    /\ sent + waiting < MaxSends
    /\ IF HasRoom(queue, cap)
         THEN /\ Enqueue
              /\ blast' = BRet("try_send", "true", 0)
         ELSE /\ blast' = BRet("try_send", "false", 0)
              /\ UNCHANGED <<queue, sent>>
    /\ UNCHANGED <<owner, cap, debug, th, waiting, takers>>
    /\ UNCHANGED <<engine_vars, res_vars, plugin_vars, console_vars, ext_vars>>

\* Bus::send by any producer: Sender::send(ev) returns at once when the
\* channel has room and otherwise waits for room
Send ==
    /\ sent + waiting < MaxSends
    /\ IF HasRoom(queue, cap)
         THEN /\ Enqueue
              /\ blast' = BRet("send", "Ok", 0)
              /\ UNCHANGED waiting
         ELSE /\ waiting' = waiting + 1
              /\ UNCHANGED <<queue, sent, blast>>
    /\ UNCHANGED <<owner, cap, debug, th, takers>>
    /\ UNCHANGED <<engine_vars, res_vars, plugin_vars, console_vars, ext_vars>>

\* a waiting Sender::send gets its room and returns
SendResume ==
    /\ waiting > 0
    /\ HasRoom(queue, cap)
    /\ Enqueue
    /\ waiting' = waiting - 1
    /\ blast' = BRet("send", "Ok", 0)
    /\ UNCHANGED <<owner, cap, debug, th, takers>>
    /\ UNCHANGED <<engine_vars, res_vars, plugin_vars, console_vars, ext_vars>>

ConsumerOps == {"try_recv", "drain_into", "drain"}

\* variant: a foreign owner is tolerated in every build
GuardNeverPanics(cur, id, dbg) ==
    IF cur = 0 THEN "cas" ELSE "recv"

\* ConsumerGuard::assert_or_claim after `cur = owner.load()`: where the
\* caller goes next
GuardBranch(cur, id, dbg) ==
    IF cur = 0 THEN "cas"
    ELSE IF cur # id /\ dbg THEN "panicked"
    ELSE "recv"

\* entry of try_recv / drain_into / drain: assert_or_claim computes the
\* caller's id and loads the owner
ConsumerBegin(t, op) ==
    /\ th[t].pc = "idle"
    /\ th' = [th EXCEPT ![t] =
                 [pc |-> GuardBranch(owner, ConsumerId(t), debug),
                  op |-> op, out |-> <<>>,
                  fresh |-> op # "try_recv" /\ Len(queue) = sent]]
    /\ UNCHANGED <<owner, queue, cap, debug, waiting, sent, takers, blast>>
    /\ UNCHANGED <<engine_vars, res_vars, plugin_vars, console_vars, ext_vars>>

\* AtomicU64::compare_exchange(current, new): the value it leaves
CompareExchange(o, current, new) == IF o = current THEN new ELSE o

\* `let _ = self.owner.compare_exchange(0, id, ..); return;` the result of
\* the exchange is dropped and the caller goes on to the channel
GuardCas(t) ==
    /\ th[t].pc = "cas"
    /\ owner' = CompareExchange(owner, 0, ConsumerId(t))
    /\ th' = [th EXCEPT ![t].pc = "recv"]
    /\ UNCHANGED <<queue, cap, debug, waiting, sent, takers, blast>>
    /\ UNCHANGED <<engine_vars, res_vars, plugin_vars, console_vars, ext_vars>>

\* variant: the drain loop ends after its first item
DrainStopsAfterOne(out) == out = <<>>

\* `while let Ok(ev) = self.rx.try_recv()`: the loop has no other exit
DrainContinues(out) == TRUE

\* one Receiver::try_recv of the running consumer call, and the return of
\* the call when that was its last
Recv(t) ==
    /\ th[t].pc = "recv"
    /\ IF th[t].op = "try_recv"
         THEN /\ blast' = IF queue = <<>> THEN BRet("try_recv", "None", 0)
                          ELSE BRet("try_recv", "Some", Head(queue))
              /\ queue' = IF queue = <<>> THEN queue ELSE Tail(queue)
              /\ takers' = IF queue = <<>> THEN takers ELSE takers \cup {ConsumerId(t)}
              /\ th' = [th EXCEPT ![t] = Idle]
         ELSE IF queue # <<>> /\ DrainContinues(th[t].out)
           THEN /\ th' = [th EXCEPT ![t].out = Append(@, Head(queue))]
                /\ queue' = Tail(queue)
                /\ takers' = takers \cup {ConsumerId(t)}
                /\ UNCHANGED blast
           ELSE /\ blast' = BRet(th[t].op, "n", Len(th[t].out))
                /\ th' = [th EXCEPT ![t] = Idle]
                /\ UNCHANGED <<queue, takers>>
    /\ UNCHANGED <<owner, cap, debug, waiting, sent>>
    /\ UNCHANGED <<engine_vars, res_vars, plugin_vars, console_vars, ext_vars>>

\* ------------------------------------------------- Bus, producers by name

\* the threads that send; a producer makes one call at a time
Producers == 1..NumProducers

\* no item has been sent
ProducersNew ==
    /\ by = <<>>
    /\ blocked = {}

\* the item a producer hands to its next send or try_send
Item(p) ==
    [p |-> p,
     k |-> 1 + Cardinality({i \in 1..Len(by) : by[i].p = p})
             + Cardinality({b \in blocked : b.p = p})]

\* the producer is inside a Sender::send that waits
Waits(p) == \E b \in blocked : b.p = p

\* Bus::try_send called by producer p
ProducerTrySend(p) ==
    /\ ~Waits(p)
    /\ sent + waiting < MaxSends
    /\ IF HasRoom(queue, cap)
         THEN /\ Enqueue
              /\ by' = Append(by, Item(p))
              /\ blast' = BRet("try_send", "true", 0)
         ELSE /\ blast' = BRet("try_send", "false", 0)
              /\ UNCHANGED <<queue, sent, by>>
    /\ UNCHANGED <<owner, cap, debug, th, waiting, takers, blocked>>
    /\ UNCHANGED <<engine_vars, res_vars, plugin_vars, console_vars, asset_vars,
                   core_vars, winit_vars>>

\* Bus::send called by producer p
ProducerSend(p) ==
    /\ ~Waits(p)
    /\ sent + waiting < MaxSends
    /\ IF HasRoom(queue, cap)
         THEN /\ Enqueue
              /\ by' = Append(by, Item(p))
              /\ blast' = BRet("send", "Ok", 0)
              /\ UNCHANGED <<waiting, blocked>>
         ELSE /\ waiting' = waiting + 1
              /\ blocked' = blocked \cup {Item(p)}
              /\ UNCHANGED <<queue, sent, blast, by>>
    /\ UNCHANGED <<owner, cap, debug, th, takers>>
    /\ UNCHANGED <<engine_vars, res_vars, plugin_vars, console_vars, asset_vars,
                   core_vars, winit_vars>>

\* the waiting Sender::send of producer p gets its room and returns
ProducerResume(p) ==
    /\ Waits(p)
    /\ HasRoom(queue, cap)
    /\ Enqueue
    /\ LET b == CHOOSE b \in blocked : b.p = p
       IN  /\ by' = Append(by, b)
           /\ blocked' = blocked \ {b}
    /\ waiting' = waiting - 1
    /\ blast' = BRet("send", "Ok", 0)
    /\ UNCHANGED <<owner, cap, debug, th, takers>>
    /\ UNCHANGED <<engine_vars, res_vars, plugin_vars, console_vars, asset_vars,
                   core_vars, winit_vars>>

\* ----------------------------------------------------------- PluginManager

\* file names of a scanned directory; PathBuf order is the order of numbers
Paths == 1..NumFiles
\* PluginInfo.id values that plugin modules report
PluginIds == {"a", "b"}

\* what a directory entry is: its extension, and for a dynamic library
\* whether Library::new fails on it ("unloadable"), whether it lacks the
\* root symbol ("no_root"), or the id its module reports
Files ==
    {[ext |-> "txt", kind |-> "none", id |-> ""]}
    \cup {[ext |-> "so", kind |-> k, id |-> ""] : k \in {"unloadable", "no_root"}}
    \cup {[ext |-> "so", kind |-> "plugin", id |-> i] : i \in PluginIds}

Dirs == [Paths -> Files]

\* is_dynlib
IsDynlib(f) == f.ext \in {"dll", "so", "dylib"}

RECURSIVE Asc(_)
Asc(S) ==
    IF S = {} THEN <<>>
    ELSE LET m == CHOOSE x \in S : \A y \in S : x <= y
         IN <<m>> \o Asc(S \ {m})

RECURSIVE Desc(_)
Desc(S) ==
    IF S = {} THEN <<>>
    ELSE LET m == CHOOSE x \in S : \A y \in S : x >= y
         IN <<m>> \o Desc(S \ {m})

\* std::fs::read_dir yields the entries in an order of the platform's
\* choosing; is_dynlib keeps the candidates
Candidates(d, rev) ==
    SelectSeq(IF rev THEN Desc(DOMAIN d) ELSE Asc(DOMAIN d),
              LAMBDA n : IsDynlib(d[n]))

\* libs.sort()
SortPaths(s) == Asc(Range(s))

\* load_root_via_libloading returns Ok
RootLoads(f) == f.kind = "plugin"

\* variant: no id counts as reserved
NeverReserved(idset, id) == FALSE

\* self.ids.contains(&id_key)
IsReserved(idset, id) == id \in idset

\* the error string a failing plugin hook returns
HookErr == "failed"

\* format!("plugins: {hook} failed for id='{}': {}", p.info.id, e)
BatchError(hook, id, e) ==
    "plugins: " \o hook \o " failed for id='" \o id \o "': " \o e

\* one line of plog: a plugin hook invoked (ev is the hook's name), a
\* warning logged for a skipped file, or a LoadedPlugin dropped; st is the
\* state the plugin was in
PEntry(ev, path, id, ok, st) ==
    [ev |-> ev, path |-> path, id |-> id, ok |-> ok, st |-> st]

\* value of a PluginManager call; was_started is history: the `started`
\* field when the call was entered
PRet(op, tag, e) ==
    [op |-> op, tag |-> tag, err |-> e, was_started |-> started]

\* pbefore outside load_dir and shutdown
NoBefore == [plugins |-> <<>>, ids |-> {}]

\* a LoadedPlugin; st is the state of its module: "Initialized" once init
\* returned Ok, "Started" once start returned Ok
Loaded(path, id) == [path |-> path, id |-> id, st |-> "Initialized"]

\* load_dir up to `libs.sort()`
LoadDirBegin(d) ==
    /\ ppc = "idle"
    /\ loads < MaxLoads
    /\ loads' = loads + 1
    /\ dir' = d
    /\ libs' \in {SortPaths(Candidates(d, rev)) : rev \in BOOLEAN}
    /\ ppc' = "load"
    /\ pidx' = 1
    /\ plog' = <<>>
    /\ presult' = PRet("load_dir", "running", "")
    /\ pbefore' = [plugins |-> plugins, ids |-> ids]
    /\ UNCHANGED <<plugins, started, ids>>
    /\ UNCHANGED <<engine_vars, res_vars, bus_vars, console_vars, ext_vars>>

\* load_dir when create_dir_all or read_dir fails: the `?` returns
LoadDirFails ==
    /\ ppc = "idle"
    /\ loads < MaxLoads
    /\ loads' = loads + 1
    /\ dir' = <<>>
    /\ libs' = <<>>
    /\ plog' = <<>>
    /\ pidx' = 0
    /\ presult' = PRet("load_dir", "Err", "plugins: read_dir failed")
    /\ pbefore' = NoBefore
    /\ UNCHANGED <<plugins, started, ids, ppc>>
    /\ UNCHANGED <<engine_vars, res_vars, bus_vars, console_vars, ext_vars>>

\* variant: a skipped file ends the scan
SkipRest(i, n) == n + 1

\* `continue`: the loop goes to the next candidate
NextCandidate(i, n) == i + 1

\* variant: the id is reserved before init is called
ReservedBeforeInit(idset, id, ok) == idset \cup {id}

\* the id set after `module.init(..)`: `self.ids.insert(id_key)` comes
\* after the `continue` of a failed init
IdsAfterInit(idset, id, ok) == IF ok THEN idset \cup {id} ELSE idset

\* one iteration of `for path in libs`; ok is what the module's init
\* returns when it is called
LoadFile(ok) ==
    /\ ppc = "load"
    /\ pidx <= Len(libs)
    /\ LET path == libs[pidx]
           f == dir[path]
       IN IF ~RootLoads(f)
            THEN /\ plog' = Append(plog, PEntry("skip_incompatible", path, "", FALSE, "Scanned"))
                 /\ pidx' = NextCandidate(pidx, Len(libs))
                 /\ UNCHANGED <<plugins, ids>>
          ELSE IF IsReserved(ids, f.id)
            THEN /\ plog' = Append(plog, PEntry("skip_duplicate", path, f.id, FALSE, "Loaded"))
                 /\ pidx' = NextCandidate(pidx, Len(libs))
                 /\ UNCHANGED <<plugins, ids>>
          ELSE IF ~ok
            THEN /\ plog' = Append(plog, PEntry("init", path, f.id, FALSE, "Loaded"))
                 /\ pidx' = NextCandidate(pidx, Len(libs))
                 /\ ids' = IdsAfterInit(ids, f.id, FALSE)
                 /\ UNCHANGED plugins
          ELSE /\ plog' = Append(plog, PEntry("init", path, f.id, TRUE, "Loaded"))
               /\ ids' = IdsAfterInit(ids, f.id, TRUE)
               /\ plugins' = Append(plugins, Loaded(path, f.id))
               /\ pidx' = pidx + 1
    /\ UNCHANGED <<started, ppc, libs, dir, presult, pbefore, loads>>
    /\ UNCHANGED <<engine_vars, res_vars, bus_vars, console_vars, ext_vars>>

\* load_dir after the loop: Ok(()); the locals and the history of the
\* call end with it
LoadDirDone ==
    /\ ppc = "load"
    /\ pidx > Len(libs)
    /\ ppc' = "idle"
    /\ presult' = [presult EXCEPT !.tag = "Ok"]
    /\ pidx' = 0
    /\ libs' = <<>>
    /\ dir' = <<>>
    /\ plog' = <<>>
    /\ pbefore' = NoBefore
    /\ UNCHANGED <<plugins, started, ids, loads>>
    /\ UNCHANGED <<engine_vars, res_vars, bus_vars, console_vars, ext_vars>>

BatchOps == {"start_all", "fixed_update_all", "update_all", "render_all"}

\* the PluginModule hook a batch call invokes
HookOf(op) ==
    CASE op = "start_all" -> "start"
      [] op = "fixed_update_all" -> "fixed_update"
      [] op = "update_all" -> "update"
      [] op = "render_all" -> "render"

\* start_all / fixed_update_all / update_all / render_all up to the loop;
\* start_all returns Ok(()) at once when `started` is set
BatchBegin(op) ==
    /\ ppc = "idle"
    /\ plog' = <<>>
    /\ IF op = "start_all" /\ started
         THEN /\ presult' = PRet(op, "Ok", "")
              /\ pidx' = 0
              /\ UNCHANGED ppc
         ELSE /\ presult' = PRet(op, "running", "")
              /\ pidx' = 1
              /\ ppc' = op
    /\ UNCHANGED <<plugins, started, ids, libs, dir, pbefore, loads>>
    /\ UNCHANGED <<engine_vars, res_vars, bus_vars, console_vars, ext_vars>>

\* variant: a hook's Err is dropped and the loop goes on
BatchIgnoresFailure(ok) == TRUE

\* `.map_err(..)?` inside the loop: the loop goes on only after Ok
BatchContinues(ok) == ok

\* one iteration of `for p in self.plugins.iter_mut()`; ok is what the
\* plugin's hook returns
BatchHook(ok) ==
    /\ ppc \in BatchOps
    /\ pidx <= Len(plugins)
    /\ LET p == plugins[pidx]
       IN /\ plog' = Append(plog, PEntry(HookOf(ppc), p.path, p.id, ok, p.st))
          /\ plugins' = IF ppc = "start_all" /\ ok
                          THEN [plugins EXCEPT ![pidx].st = "Started"]
                          ELSE plugins
          /\ IF BatchContinues(ok)
               THEN /\ pidx' = pidx + 1
                    /\ UNCHANGED <<ppc, presult>>
               ELSE /\ ppc' = "idle"
                    /\ presult' = [presult EXCEPT
                                     !.tag = "Err",
                                     !.err = BatchError(HookOf(ppc), p.id, HookErr)]
                    /\ UNCHANGED pidx
    /\ UNCHANGED <<started, ids, libs, dir, pbefore, loads>>
    /\ UNCHANGED <<engine_vars, res_vars, bus_vars, console_vars, ext_vars>>

\* the batch call after its loop: start_all sets `started`; Ok(())
BatchDone ==
    /\ ppc \in BatchOps
    /\ pidx > Len(plugins)
    /\ started' = IF ppc = "start_all" THEN TRUE ELSE started
    /\ ppc' = "idle"
    /\ presult' = [presult EXCEPT !.tag = "Ok"]
    /\ UNCHANGED <<plugins, ids, pidx, libs, dir, plog, pbefore, loads>>
    /\ UNCHANGED <<engine_vars, res_vars, bus_vars, console_vars, ext_vars>>

\* PluginManager::shutdown entered
PluginsShutdownBegin ==
    /\ ppc = "idle"
    /\ ppc' = "shutdown"
    /\ pidx' = 1
    /\ plog' = <<>>
    /\ presult' = PRet("shutdown", "running", "")
    /\ pbefore' = [plugins |-> plugins, ids |-> ids]
    /\ UNCHANGED <<plugins, started, ids, libs, dir, loads>>
    /\ UNCHANGED <<engine_vars, res_vars, bus_vars, console_vars, ext_vars>>

\* `self.plugins.iter_mut().rev()`: the element of the k-th iteration
RevPlugin(k, n) == n - k + 1

\* one iteration of the shutdown loop: PluginModule::shutdown returns nothing
PluginsShutdownHook ==
    /\ ppc = "shutdown"
    /\ pidx <= Len(plugins)
    /\ LET p == plugins[RevPlugin(pidx, Len(plugins))]
       IN plog' = Append(plog, PEntry("shutdown", p.path, p.id, TRUE, p.st))
    /\ pidx' = pidx + 1
    /\ UNCHANGED <<plugins, started, ids, ppc, libs, dir, presult, pbefore, loads>>
    /\ UNCHANGED <<engine_vars, res_vars, bus_vars, console_vars, ext_vars>>

\* Vec::clear drops the elements front to back: the k-th element dropped
ClearOrder(k, n) == k

\* shutdown after its loop: self.plugins.clear()
PluginsClear ==
    /\ ppc = "shutdown"
    /\ pidx > Len(plugins)
    /\ plog' = plog \o [k \in 1..Len(plugins) |->
                          LET p == plugins[ClearOrder(k, Len(plugins))]
                          IN PEntry("drop", p.path, p.id, TRUE, "ShutDown")]
    /\ plugins' = <<>>
    /\ ppc' = "shutdown_clear"
    /\ UNCHANGED <<started, ids, pidx, libs, dir, presult, pbefore, loads>>
    /\ UNCHANGED <<engine_vars, res_vars, bus_vars, console_vars, ext_vars>>

\* the rest of shutdown: self.ids.clear(); self.started = false; the
\* history of the call ends with it
PluginsShutdownDone ==
    /\ ppc = "shutdown_clear"
    /\ ids' = {}
    /\ started' = FALSE
    /\ ppc' = "idle"
    /\ pidx' = 0
    /\ plog' = <<>>
    /\ pbefore' = NoBefore
    /\ presult' = [presult EXCEPT !.tag = "Unit"]
    /\ UNCHANGED <<plugins, libs, dir, loads>>
    /\ UNCHANGED <<engine_vars, res_vars, bus_vars, console_vars, ext_vars>>

\* ------------------------------------------------- HostContext and console

\* A string is the sequence of its characters.
\* the characters used, in the order `str::cmp` gives them
Alphabet ==
    <<" ", ".", "1", "2", ":", "<", ">", "[", "]", "_", "a", "b", "c", "d", "e", "f",
      "g", "h", "i", "j", "k", "l", "m", "n", "o", "p", "q", "r", "s", "t", "u",
      "v", "w", "x", "y", "z">>

CharRanks == [c \in Range(Alphabet) |-> CHOOSE i \in 1..Len(Alphabet) : Alphabet[i] = c]
CharRank(c) == CharRanks[c]

\* `a < b` of two strings
RECURSIVE StrLess(_, _)
StrLess(a, b) ==
    IF a = <<>> THEN b # <<>>
    ELSE IF b = <<>> THEN FALSE
    ELSE IF a[1] = b[1] THEN StrLess(Tail(a), Tail(b))
    ELSE CharRank(a[1]) < CharRank(b[1])

\* the strings of a set in ascending order: `sort()` then `dedup()` of a
\* Vec<String>, and the key order of a BTreeMap
RECURSIVE SortStrs(_)
SortStrs(S) ==
    IF S = {} THEN <<>>
    ELSE LET m == CHOOSE x \in S : \A y \in S \ {x} : StrLess(x, y)
         IN  <<m>> \o SortStrs(S \ {m})

\* str::starts_with
StartsWith(s, p) == Len(p) <= Len(s) /\ SubSeq(s, 1, Len(p)) = p

\* pub const COMMAND_SERVICE_ID
COMMAND_SERVICE_ID == <<"e", "n", "g", "i", "n", "e", ".", "c", "o", "m", "m", "a", "n", "d">>

\* method::EXEC, COMPLETE, SUGGEST, REFRESH
EXEC == <<"c", "o", "m", "m", "a", "n", "d", ".", "e", "x", "e", "c">>
COMPLETE == <<"c", "o", "m", "m", "a", "n", "d", ".", "c", "o", "m", "p", "l", "e", "t", "e">>
SUGGEST == <<"c", "o", "m", "m", "a", "n", "d", ".", "s", "u", "g", "g", "e", "s", "t">>
REFRESH == <<"c", "o", "m", "m", "a", "n", "d", ".", "r", "e", "f", "r", "e", "s", "h">>

\* ids under which plugins register services, and a method they answer
PluginServiceIds == {<<"s", "1">>, <<"s", "2">>}
PluginMethod == <<"m">>

\* Option<String>
NoStr == [some |-> FALSE, v |-> <<>>]
SomeStr(s) == [some |-> TRUE, v |-> s]
UnwrapOr(o, d) == IF o.some THEN o.v ELSE d

\* one element of a document's console.commands array: `entry` tells
\* whether it deserializes as a ConsoleCmdEntry, the rest are its fields
CmdEntry(name, help, usage, kind, sid, method, payload) ==
    [entry |-> TRUE, name |-> name, help |-> help, usage |-> usage, kind |-> kind,
     service_id |-> sid, method |-> method, payload |-> payload]
\* an element without the required `name`
BadEntry ==
    [entry |-> FALSE, name |-> <<>>, help |-> NoStr, usage |-> NoStr, kind |-> NoStr,
     service_id |-> NoStr, method |-> NoStr, payload |-> NoStr]

\* what a describe() string parses to: `json` tells whether it is JSON at
\* all, `methods` the names in its "methods" array and `commands` its
\* console.commands array, each with whether the document has it
Document(json, has_methods, methods, has_commands, commands) ==
    [json |-> json, has_methods |-> has_methods, methods |-> methods,
     has_commands |-> has_commands, commands |-> commands]

\* CommandService::describe: four methods, six commands none of which
\* names a method
CommandServiceDoc ==
    Document(TRUE, TRUE, <<EXEC, COMPLETE, SUGGEST, REFRESH>>, TRUE,
        <<CmdEntry(<<"h", "e", "l", "p">>, SomeStr(<<"L", "i", "s", "t", " ", "c", "o", "m", "m", "a", "n", "d", "s">>), SomeStr(<<"h", "e", "l", "p">>), NoStr, NoStr, NoStr, NoStr),
          CmdEntry(<<"s", "e", "r", "v", "i", "c", "e", "s">>, SomeStr(<<"L", "i", "s", "t", " ", "s", "e", "r", "v", "i", "c", "e", "s">>), SomeStr(<<"s", "e", "r", "v", "i", "c", "e", "s">>), NoStr, NoStr, NoStr, NoStr),
          CmdEntry(<<"r", "e", "f", "r", "e", "s", "h">>, SomeStr(<<"R", "e", "f", "r", "e", "s", "h", " ", "c", "o", "n", "s", "o", "l", "e", " ", "c", "o", "m", "m", "a", "n", "d", "s">>), SomeStr(<<"r", "e", "f", "r", "e", "s", "h">>), NoStr, NoStr, NoStr, NoStr),
          CmdEntry(<<"d", "e", "s", "c", "r", "i", "b", "e">>, SomeStr(<<"D", "e", "s", "c", "r", "i", "b", "e", " ", "a", " ", "s", "e", "r", "v", "i", "c", "e">>), SomeStr(<<"d", "e", "s", "c", "r", "i", "b", "e", " ", "<", "s", "e", "r", "v", "i", "c", "e", "_", "i", "d", ">">>), NoStr, NoStr, NoStr, NoStr),
          CmdEntry(<<"c", "a", "l", "l">>, SomeStr(<<"C", "a", "l", "l", " ", "a", " ", "s", "e", "r", "v", "i", "c", "e", " ", "m", "e", "t", "h", "o", "d">>), SomeStr(<<"c", "a", "l", "l", " ", "<", "s", "e", "r", "v", "i", "c", "e", "_", "i", "d", ">", " ", "<", "m", "e", "t", "h", "o", "d", ">", " ", "[", "p", "a", "y", "l", "o", "a", "d", "]">>), NoStr, NoStr, NoStr, NoStr),
          CmdEntry(<<"q", "u", "i", "t">>, SomeStr(<<"E", "x", "i", "t", " ", "e", "n", "g", "i", "n", "e">>), SomeStr(<<"q", "u", "i", "t">>), NoStr, NoStr, NoStr, NoStr)>>)

\* the describe() outputs a plugin service chooses among
PluginDocs ==
    <<\* not JSON
      Document(FALSE, FALSE, <<>>, FALSE, <<>>),
      \* declares the command `go`: its own method, trailing bytes forwarded
      Document(TRUE, TRUE, <<PluginMethod>>, TRUE,
        <<CmdEntry(<<"g", "o">>, NoStr, NoStr, NoStr, NoStr, SomeStr(PluginMethod), NoStr)>>),
      \* declares a command named like the built-in `help`, next to entries
      \* that are skipped: no name, another kind, no method
      Document(TRUE, TRUE, <<PluginMethod>>, TRUE,
        <<BadEntry,
          CmdEntry(<<"g", "o">>, NoStr, NoStr, SomeStr(<<"a", "l", "i", "a", "s">>), NoStr, SomeStr(PluginMethod), NoStr),
          CmdEntry(<<"g", "o">>, NoStr, NoStr, NoStr, NoStr, NoStr, NoStr),
          CmdEntry(<<"h", "e", "l", "p">>, SomeStr(<<"p", "l", "u", "g", "i", "n", " ", "h", "e", "l", "p">>), SomeStr(<<"h", "e", "l", "p">>), SomeStr(<<"s", "e", "r", "v", "i", "c", "e", "_", "c", "a", "l", "l">>),
                   NoStr, SomeStr(PluginMethod), SomeStr(<<"e", "m", "p", "t", "y">>))>>),
      \* declares `go` as a call of the console's own exec method
      Document(TRUE, FALSE, <<>>, TRUE,
        <<CmdEntry(<<"g", "o">>, NoStr, NoStr, NoStr, SomeStr(COMMAND_SERVICE_ID), SomeStr(EXEC), NoStr)>>)>>

Documents == <<CommandServiceDoc>> \o PluginDocs
\* a registered service is named by the document it currently describes
\* itself with
CommandServiceV == 1
PluginServices == 2..Len(Documents)
\* svc.describe() followed by serde_json::from_str
Describe(svc) == Documents[svc]

\* the method names of each document after `mm.sort(); mm.dedup();`
SortedMethods == [svc \in DOMAIN Documents |-> SortStrs(Range(Documents[svc].methods))]

\* the keys of a map
Keys(m) == {e.k : e \in m}

\* the orders in which `services.iter()` can yield the entries of a HashMap
IterOrders(m) ==
    {o \in [1..Cardinality(Keys(m)) -> Keys(m)] :
        \A i, j \in DOMAIN o : i # j => o[i] # o[j]}

\* variant: the kind of the entry is not looked at
DeclaresAnyKind(e) ==
    /\ e.entry
    /\ UnwrapOr(e.method, <<>>) # <<>>

\* whether refresh_dyn_commands takes the entry: it deserializes, its kind
\* is (or defaults to) "service_call" and it names a method
Declares(e) ==
    /\ e.entry
    /\ UnwrapOr(e.kind, <<"s", "e", "r", "v", "i", "c", "e", "_", "c", "a", "l", "l">>) = <<"s", "e", "r", "v", "i", "c", "e", "_", "c", "a", "l", "l">>
    /\ UnwrapOr(e.method, <<>>) # <<>>

\* the DynCommand built from an entry of service `id`
DynCommandOf(id, e) ==
    LET sid == UnwrapOr(e.service_id, id)
        method == UnwrapOr(e.method, <<>>)
    IN  [help |-> UnwrapOr(e.help, sid \o <<":", ":">> \o method),
         usage |-> UnwrapOr(e.usage, e.name \o <<" ", "<", "a", "r", "g", "s", ">">>),
         service_id |-> sid,
         method |-> method,
         payload |-> IF e.payload = SomeStr(<<"e", "m", "p", "t", "y">>) THEN "Empty" ELSE "Raw"]

\* `for c in cmds { .. out.insert(entry.name, ..) }`
RECURSIVE FoldCommands(_, _, _)
FoldCommands(out, id, cmds) ==
    IF cmds = <<>> THEN out
    ELSE FoldCommands(IF Declares(Head(cmds))
                        THEN MapInsert(out, Head(cmds).name, DynCommandOf(id, Head(cmds)))
                        ELSE out,
                      id, Tail(cmds))

\* the body of `for (id, svc) in services.iter()`; t holds `out` and
\* `methods`
RefreshOne(t, id, svc) ==
    LET doc == Describe(svc)
    IN  IF ~doc.json THEN t
        ELSE [out |-> IF doc.has_commands THEN FoldCommands(t.out, id, doc.commands)
                      ELSE t.out,
              methods |-> IF doc.has_methods
                            THEN MapInsert(t.methods, id, SortedMethods[svc])
                            ELSE t.methods]

RECURSIVE RefreshFold(_, _, _)
RefreshFold(t, svcs, order) ==
    IF order = <<>> THEN t
    ELSE RefreshFold(RefreshOne(t, order[1], MapGet(svcs, order[1]).v), svcs, Tail(order))

\* the two tables refresh_dyn_commands builds when the services are
\* iterated in `order`
Refreshed(svcs, order) == RefreshFold([out |-> {}, methods |-> {}], svcs, order)

\* variant: the counter is left as it is
BumpNothing(g) == g

\* bump_services_generation: fetch_add(1)
BumpServicesGeneration(g) == g + 1

\* char::is_whitespace, for the characters used
IsSpace(c) == c \in {" ", "\n"}

\* str::trim_start, str::trim_end, str::trim
RECURSIVE TrimStart(_)
TrimStart(s) == IF s # <<>> /\ IsSpace(s[1]) THEN TrimStart(Tail(s)) ELSE s
RECURSIVE TrimEnd(_)
TrimEnd(s) ==
    IF s # <<>> /\ IsSpace(s[Len(s)]) THEN TrimEnd(SubSeq(s, 1, Len(s) - 1)) ELSE s
Trim(s) == TrimEnd(TrimStart(s))

\* length of the longest prefix of s without whitespace
RECURSIVE WordLen(_)
WordLen(s) == IF s = <<>> \/ IsSpace(s[1]) THEN 0 ELSE 1 + WordLen(Tail(s))

\* str::split_whitespace, collected
RECURSIVE SplitWhitespace(_)
SplitWhitespace(s) ==
    LET t == TrimStart(s)
    IN  IF t = <<>> THEN <<>>
        ELSE <<SubSeq(t, 1, WordLen(t))>> \o SplitWhitespace(SubSeq(t, WordLen(t) + 1, Len(t)))

\* `[String]::join(sep)`
RECURSIVE Join(_, _)
Join(ss, sep) ==
    IF ss = <<>> THEN <<>>
    ELSE IF Len(ss) = 1 THEN ss[1]
    ELSE ss[1] \o sep \o Join(Tail(ss), sep)

\* the lines given to exec
Lines ==
    {<<>>, <<" ", " ">>, <<" ", "h", "e", "l", "p", " ">>, <<"g", "o">>, <<"g", "o", " ", "a", " ", " ", "b">>, <<"z", "z", " ", "a">>, <<"s", "e", "r", "v", "i", "c", "e", "s">>, <<"r", "e", "f", "r", "e", "s", "h">>,
     <<"d", "e", "s", "c", "r", "i", "b", "e">>, <<"d", "e", "s", "c", "r", "i", "b", "e", " ", "s", "1">>, <<"c", "a", "l", "l", " ", "s", "1">>, <<"c", "a", "l", "l", " ", "s", "1", " ", "m", " ", "a", " ", " ", "b">>, <<"c", "a", "l", "l", " ", "z", "z", " ", "m">>, <<"q", "u", "i", "t">>,
     <<"c", "a", "l", "l", " ", "e", "n", "g", "i", "n", "e", ".", "c", "o", "m", "m", "a", "n", "d", " ", "c", "o", "m", "m", "a", "n", "d", ".", "e", "x", "e", "c">>, <<"c", "a", "l", "l", " ", "e", "n", "g", "i", "n", "e", ".", "c", "o", "m", "m", "a", "n", "d", " ", "c", "o", "m", "m", "a", "n", "d", ".", "e", "x", "e", "c", " ", "h", "e", "l", "p">>,
     <<"c", "a", "l", "l", " ", "e", "n", "g", "i", "n", "e", ".", "c", "o", "m", "m", "a", "n", "d", " ", "c", "o", "m", "m", "a", "n", "d", ".", "e", "x", "e", "c", " ", "g", "o">>, <<"c", "a", "l", "l", " ", "e", "n", "g", "i", "n", "e", ".", "c", "o", "m", "m", "a", "n", "d", " ", "c", "o", "m", "m", "a", "n", "d", ".", "r", "e", "f", "r", "e", "s", "h">>,
     <<"c", "a", "l", "l", " ", "e", "n", "g", "i", "n", "e", ".", "c", "o", "m", "m", "a", "n", "d", " ", "c", "o", "m", "m", "a", "n", "d", ".", "c", "o", "m", "p", "l", "e", "t", "e", " ", "g">>, <<"c", "a", "l", "l", " ", "e", "n", "g", "i", "n", "e", ".", "c", "o", "m", "m", "a", "n", "d", " ", "n", "o", "p", "e">>}

\* the inputs given to complete and to suggest
Inputs ==
    {<<>>, <<"g">>, <<"h", "e">>, <<"g", "o", " ">>, <<"h", "e", "l", "p", " ">>, <<"d", "e", "s", "c", "r", "i", "b", "e", " ">>, <<"d", "e", "s", "c", "r", "i", "b", "e", " ", "s">>, <<"c", "a", "l", "l", " ", "s", "1", " ">>, <<"c", "a", "l", "l", " ", "s", "1", " ", "m">>,
     <<"z", "z", " ", "a">>}

\* str::split_whitespace of the lines given to exec, computed once
LineTokens == [s \in Lines |-> SplitWhitespace(s)]

\* str::split_whitespace of the inputs given to complete and suggest,
\* computed once
InputTokens == [s \in Inputs |-> SplitWhitespace(s)]

\* `line.split_whitespace()`
Tokens(s) ==
    IF s \in Lines THEN LineTokens[s]
    ELSE IF s \in Inputs THEN InputTokens[s]
    ELSE SplitWhitespace(s)

\* `it.next().unwrap_or("")` after k earlier calls of next()
TokenOr(toks, k) == IF Len(toks) >= k THEN toks[k] ELSE <<>>

\* ConsoleRuntime.cmds as ConsoleRuntime::new fills it; `f` names the closure
Cmds ==
    {[k |-> <<"h", "e", "l", "p">>, v |-> [help |-> <<"L", "i", "s", "t", " ", "c", "o", "m", "m", "a", "n", "d", "s">>, usage |-> <<"h", "e", "l", "p">>, f |-> "help"]],
     [k |-> <<"s", "e", "r", "v", "i", "c", "e", "s">>, v |-> [help |-> <<"L", "i", "s", "t", " ", "s", "e", "r", "v", "i", "c", "e", "s">>, usage |-> <<"s", "e", "r", "v", "i", "c", "e", "s">>, f |-> "services"]],
     [k |-> <<"r", "e", "f", "r", "e", "s", "h">>,
      v |-> [help |-> <<"R", "e", "f", "r", "e", "s", "h", " ", "c", "o", "n", "s", "o", "l", "e", " ", "c", "o", "m", "m", "a", "n", "d", "s", " ", "f", "r", "o", "m", " ", "s", "e", "r", "v", "i", "c", "e", "s">>, usage |-> <<"r", "e", "f", "r", "e", "s", "h">>, f |-> "refresh"]],
     [k |-> <<"d", "e", "s", "c", "r", "i", "b", "e">>,
      v |-> [help |-> <<"D", "e", "s", "c", "r", "i", "b", "e", " ", "a", " ", "s", "e", "r", "v", "i", "c", "e">>, usage |-> <<"d", "e", "s", "c", "r", "i", "b", "e", " ", "<", "s", "e", "r", "v", "i", "c", "e", "_", "i", "d", ">">>, f |-> "describe"]],
     [k |-> <<"c", "a", "l", "l">>,
      v |-> [help |-> <<"C", "a", "l", "l", " ", "a", " ", "s", "e", "r", "v", "i", "c", "e", " ", "m", "e", "t", "h", "o", "d">>, usage |-> <<"c", "a", "l", "l", " ", "<", "s", "e", "r", "v", "i", "c", "e", "_", "i", "d", ">", " ", "<", "m", "e", "t", "h", "o", "d", ">", " ", "[", "p", "a", "y", "l", "o", "a", "d", "]">>,
             f |-> "call"]],
     [k |-> <<"q", "u", "i", "t">>, v |-> [help |-> <<"E", "x", "i", "t", " ", "e", "n", "g", "i", "n", "e">>, usage |-> <<"q", "u", "i", "t">>, f |-> "quit"]]}

\* the lines `  name  - help\n` of help_text for the names of `order`
RECURSIVE HelpLines(_, _)
HelpLines(m, order) ==
    IF order = <<>> THEN <<>>
    ELSE <<" ", " ">> \o order[1] \o <<" ", " ", "-", " ">> \o MapGet(m, order[1]).v.help \o <<"\n">>
         \o HelpLines(m, Tail(order))

\* the section of help_text that lists `self.cmds`, in key order
BuiltinHelp ==
    <<"B", "u", "i", "l", "t", "-", "i", "n", ":">> \o <<"\n">>
    \o HelpLines(Cmds, SortStrs(Keys(Cmds)))

\* ConsoleRuntime::help_text over the table `dyn`
HelpText(dyn) ==
    TrimEnd(BuiltinHelp
            \o (IF dyn # {}
                  THEN <<"\n">> \o <<"F", "r", "o", "m", " ", "s", "e", "r", "v", "i", "c", "e", "s", ":">> \o <<"\n">>
                       \o HelpLines(dyn, SortStrs(Keys(dyn)))
                  ELSE <<>>))

\* A value a console call hands back.  fmt "text": the string `text`;
\* "pretty": serde_json::to_string_pretty of the reply of a nested
\* CommandService call (kind, ok, text, items, sitems, sig are the reply's
\* fields); "describe_pretty" / "describe_raw": the describe() string of
\* document `doc`, pretty-printed or as it is.
Value(fmt, text, kind, ok, items, sitems, sig, doc) ==
    [fmt |-> fmt, text |-> text, kind |-> kind, ok |-> ok, items |-> items,
     sitems |-> sitems, sig |-> sig, doc |-> doc]
Text(s) == Value("text", s, "", FALSE, <<>>, <<>>, <<>>, 0)

\* RResult<Blob, RString> of CommandService::call, before it is serialized
Reply(rtag, kind, ok, out, items, sitems, sig) ==
    [rtag |-> rtag, kind |-> kind, ok |-> ok, out |-> out, items |-> items,
     sitems |-> sitems, sig |-> sig]

\* the bytes of a CommandService reply parsed as JSON and pretty-printed
\* (call_service_raw); the output of a nested exec is a string
PrettyReply(r) == Value("pretty", r.out.text, r.kind, r.ok, r.items, r.sitems, r.sig, 0)

\* what a plugin service answers to call(): bytes that are JSON, bytes that
\* are not, or its own error string, one that reads as JSON among them
PluginReplies ==
    {[ok |-> TRUE, json |-> TRUE, bytes |-> <<"[", "1", "]">>],
     [ok |-> TRUE, json |-> FALSE, bytes |-> <<"d", "o", "n", "e">>],
     [ok |-> FALSE, json |-> FALSE, bytes |-> <<"u", "n", "k", "n", "o", "w", "n", " ", "m", "e", "t", "h", "o", "d">>],
     [ok |-> FALSE, json |-> TRUE, bytes |-> <<"[", "1", "]">>]}

\* serde_json::to_string_pretty of the JSON bytes a plugin answers
PrettyJson(bytes) == IF bytes = <<"[", "1", "]">> THEN <<"[", "\n", " ", " ", "1", "\n", "]">> ELSE bytes

\* the part of the ConsoleRuntime a call can change
RtState == [dyn |-> dyn_cmds, cache |-> method_cache, exit |-> rt_exit_requested]

\* how a call of exec (or of call_service_raw) ends: with Ok(out) or
\* Err(out), or never, because it locks a mutex its own thread holds;
\* `st` is the runtime it leaves and `calls` the service calls it made
ExecRet(tag, out, st, calls) ==
    [stuck |-> FALSE, tag |-> tag, out |-> out, st |-> st, calls |-> calls]
ExecStuck(st, calls) ==
    [stuck |-> TRUE, tag |-> "Stuck", out |-> Text(<<>>), st |-> st, calls |-> calls]

\* how a call of CommandService::call ends
CallRet(reply, st, calls) == [stuck |-> FALSE, reply |-> reply, st |-> st, calls |-> calls]
CallStuck(st, calls) ==
    [stuck |-> TRUE, reply |-> Reply("Stuck", "", FALSE, Text(<<>>), <<>>, <<>>, <<>>),
     st |-> st, calls |-> calls]

\* refresh_dyn_commands called with the mutexes `held` already locked by
\* the calling thread: the runtimes it can leave, none if it never returns
RefreshDynCommands(held, st) ==
    IF "services" \in held THEN {}
    ELSE {[dyn |-> t.out, cache |-> t.methods, exit |-> st.exit] :
            t \in {Refreshed(services, order) : order \in IterOrders(services)}}

RECURSIVE ExecOutcomes(_, _, _)
RECURSIVE CommandCall(_, _, _, _)

\* variant: the error string is parsed and pretty-printed like the bytes
\* of a success
ResultTextPretty(r) == IF r.json THEN PrettyJson(r.bytes) ELSE r.bytes

\* the string call_service_raw makes of a service's reply: Ok bytes that
\* parse as JSON are pretty-printed, other Ok bytes are taken as text, and
\* the string of an Err is handed on by `e.to_string()`
ResultText(r) == IF r.ok /\ r.json THEN PrettyJson(r.bytes) ELSE r.bytes

\* call_service_v1 of default_host_api: every call fails the same way
DefaultCallServiceV1(id, method, payload) ==
    Reply("RErr", "", FALSE, Text(<<"s", "e", "r", "v", "i", "c", "e", " ", "n", "o", "t", " ", "f", "o", "u", "n", "d">>), <<>>, <<>>, <<>>)

\* ConsoleRuntime::call_service_raw
CallServiceRaw(sid, method, payload, held, st) ==
    LET call == [service_id |-> sid, method |-> method, payload |-> payload]
    IN  IF "services" \in held THEN {ExecStuck(st, <<>>)}
        ELSE IF ~MapContains(services, sid)
          THEN {ExecRet("Err", Text(<<"u", "n", "k", "n", "o", "w", "n", " ", "s", "e", "r", "v", "i", "c", "e", ":", " ">> \o sid), st, <<>>)}
        ELSE IF MapGet(services, sid).v = CommandServiceV
          THEN {IF c.stuck THEN ExecStuck(c.st, <<call>> \o c.calls)
                ELSE IF c.reply.rtag = "RErr"
                  THEN ExecRet("Err", c.reply.out, c.st, <<call>> \o c.calls)
                ELSE ExecRet("Ok", PrettyReply(c.reply), c.st, <<call>> \o c.calls) :
                  c \in CommandCall(method, payload, held \cup {"services"}, st)}
        ELSE {ExecRet(IF r.ok THEN "Ok" ELSE "Err",
                      Text(ResultText(r)),
                      st, <<call>>) : r \in PluginReplies}

\* ConsoleRuntime::describe_service
DescribeService(line, held, st) ==
    LET sid == TokenOr(Tokens(line), 2)
    IN  IF sid = <<>> THEN {ExecRet("Err", Text(<<"u", "s", "a", "g", "e", ":", " ", "d", "e", "s", "c", "r", "i", "b", "e", " ", "<", "s", "e", "r", "v", "i", "c", "e", "_", "i", "d", ">">>), st, <<>>)}
        ELSE IF "services" \in held THEN {ExecStuck(st, <<>>)}
        ELSE IF ~MapContains(services, sid)
          THEN {ExecRet("Err", Text(<<"u", "n", "k", "n", "o", "w", "n", " ", "s", "e", "r", "v", "i", "c", "e", ":", " ">> \o sid), st, <<>>)}
        ELSE LET svc == MapGet(services, sid).v
             IN  {ExecRet("Ok",
                          Value(IF Describe(svc).json THEN "describe_pretty" ELSE "describe_raw",
                                <<>>, "", FALSE, <<>>, <<>>, <<>>, svc),
                          st, <<>>)}

\* ConsoleRuntime::call_service_cmd
CallServiceCmd(line, held, st) ==
    LET toks == Tokens(line)
        sid == TokenOr(toks, 2)
        method == TokenOr(toks, 3)
        payload == Join(SubSeq(toks, 4, Len(toks)), <<" ">>)
    IN  IF sid = <<>> \/ method = <<>>
          THEN {ExecRet("Err", Text(<<"u", "s", "a", "g", "e", ":", " ", "c", "a", "l", "l", " ", "<", "s", "e", "r", "v", "i", "c", "e", "_", "i", "d", ">", " ", "<", "m", "e", "t", "h", "o", "d", ">", " ", "[", "p", "a", "y", "l", "o", "a", "d", "]">>), st, <<>>)}
        ELSE CallServiceRaw(sid, method, payload, held, st)

\* `(c.f)(self, line)` for the closure named f
BuiltinOutcomes(f, line, held, st) ==
    CASE f = "help" -> {ExecRet("Ok", Text(HelpText(st.dyn)), st, <<>>)}
      [] f = "services" ->
           IF "services" \in held THEN {ExecStuck(st, <<>>)}
           ELSE {ExecRet("Ok", Text(Join(order, <<"\n">>)), st, <<>>) :
                    order \in IterOrders(services)}
      [] f = "refresh" ->
           IF RefreshDynCommands(held, st) = {} THEN {ExecStuck(st, <<>>)}
           ELSE {ExecRet("Ok", Text(<<"r", "e", "f", "r", "e", "s", "h", "e", "d">>), st2, <<>>) :
                    st2 \in RefreshDynCommands(held, st)}
      [] f = "describe" -> DescribeService(line, held, st)
      [] f = "call" -> CallServiceCmd(line, held, st)
      [] f = "quit" -> {ExecRet("Ok", Text(<<"e", "x", "i", "t", " ", "r", "e", "q", "u", "e", "s", "t", "e", "d">>), [st EXCEPT !.exit = TRUE], <<>>)}

\* variant: the built-in commands are looked up first
DynFirstNever(dyn, head) == MapContains(dyn, head) /\ ~MapContains(Cmds, head)

\* `self.dyn_cmds.lock().unwrap().get(head)` is Some: exec looks the head
\* up in the service-derived table before the built-in one
DynFirst(dyn, head) == MapContains(dyn, head)

\* the table in which exec finds the first token of `line`
ExecRoute(line, dyn) ==
    LET head == TokenOr(Tokens(line), 1)
    IN  IF Tokens(line) = <<>> THEN "empty"
        ELSE IF DynFirst(dyn, head) THEN "dyn"
        ELSE IF MapContains(Cmds, head) THEN "builtin"
        ELSE "unknown"

\* ConsoleRuntime::exec
ExecOutcomes(line, held, st) ==
    LET l == Trim(line)
        toks == Tokens(line)
        head == TokenOr(toks, 1)
    IN  IF l = <<>> THEN {ExecRet("Ok", Text(<<>>), st, <<>>)}
        ELSE IF "dyn_cmds" \in held THEN {ExecStuck(st, <<>>)}
        ELSE IF ExecRoute(line, st.dyn) = "dyn"
          THEN LET d == MapGet(st.dyn, head).v
               IN  CallServiceRaw(d.service_id, d.method,
                                  IF d.payload = "Empty" THEN <<>>
                                  ELSE Join(Tail(toks), <<" ">>),
                                  held \cup {"dyn_cmds"}, st)
        ELSE IF ExecRoute(line, st.dyn) = "builtin"
          THEN BuiltinOutcomes(MapGet(Cmds, head).v.f, l, held, st)
        ELSE {ExecRet("Err", Text(<<"u", "n", "k", "n", "o", "w", "n", " ", "c", "o", "m", "m", "a", "n", "d", ":", " ">> \o head), st, <<>>)}

\* ConsoleRuntime::complete_service_id: the registered ids that start with
\* `prefix`, sorted; {} if the call never returns
CompleteServiceId(prefix, held) ==
    IF "services" \in held THEN {}
    ELSE {SortStrs({id \in Keys(services) : StartsWith(id, prefix)})}

\* ConsoleRuntime::ensure_method_cache: the caches it can leave
EnsureMethodCache(sid, held, cache) ==
    IF MapContains(cache, sid) THEN {cache}
    ELSE IF "services" \in held THEN {}
    ELSE IF ~MapContains(services, sid) THEN {MapInsert(cache, sid, <<>>)}
    ELSE LET svc == MapGet(services, sid).v
         IN  {MapInsert(cache, sid,
                        IF Describe(svc).json /\ Describe(svc).has_methods
                          THEN SortedMethods[svc] ELSE <<>>)}

\* ConsoleRuntime::complete_method: pairs of the list returned and the
\* cache left
CompleteMethod(sid, prefix, held, cache) ==
    {[items |-> SortStrs({m \in Range(MapGet(c, sid).v) : StartsWith(m, prefix)}),
      cache |-> c] : c \in EnsureMethodCache(sid, held, cache)}

\* str::strip_prefix
StripPrefix(s, p) == IF StartsWith(s, p) THEN SomeStr(SubSeq(s, Len(p) + 1, Len(s))) ELSE NoStr

\* how a call of complete or suggest ends
ListRet(sig, items, sitems, st) ==
    [stuck |-> FALSE, sig |-> sig, items |-> items, sitems |-> sitems, st |-> st]
ListStuck(st) == [stuck |-> TRUE, sig |-> <<>>, items |-> <<>>, sitems |-> <<>>, st |-> st]

\* ConsoleRuntime::complete
CompleteOutcomes(input, held, st) ==
    LET s == TrimStart(input)
        d == StripPrefix(s, <<"d", "e", "s", "c", "r", "i", "b", "e", " ">>)
        c == StripPrefix(s, <<"c", "a", "l", "l", " ">>)
    IN  IF d.some
          THEN IF CompleteServiceId(Trim(d.v), held) = {} THEN {ListStuck(st)}
               ELSE {ListRet(<<>>, v, <<>>, st) : v \in CompleteServiceId(Trim(d.v), held)}
        ELSE IF c.some
          THEN LET rest == c.v
                   sid == TokenOr(SplitWhitespace(rest), 1)
                   after_sid == TrimStart(SubSeq(rest, Len(sid) + 1, Len(rest)))
                   method_prefix == TokenOr(SplitWhitespace(after_sid), 1)
               IN  IF sid = <<>> \/ after_sid = <<>>
                     THEN IF CompleteServiceId(sid, held) = {} THEN {ListStuck(st)}
                          ELSE {ListRet(<<>>, v, <<>>, st) : v \in CompleteServiceId(sid, held)}
                   ELSE IF CompleteMethod(sid, method_prefix, held, st.cache) = {}
                     THEN {ListStuck(st)}
                   ELSE {ListRet(<<>>, r.items, <<>>, [st EXCEPT !.cache = r.cache]) :
                           r \in CompleteMethod(sid, method_prefix, held, st.cache)}
        ELSE IF "dyn_cmds" \in held THEN {ListStuck(st)}
        ELSE LET head == TokenOr(SplitWhitespace(s), 1)
             IN  {ListRet(<<>>,
                          SortStrs({k \in Keys(Cmds) \cup Keys(st.dyn) : StartsWith(k, head)}),
                          <<>>, st)}

\* SuggestItem
SuggestItem(kind, display, insert, help, usage) ==
    [kind |-> kind, display |-> display, insert |-> insert, help |-> help, usage |-> usage]

\* `c.usage.contains('<')`
StrContains(s, c) == \E i \in 1..Len(s) : s[i] = c

\* the items suggest_first_token pushes for the entries of table m whose
\* names are in `order` and start with `prefix`
RECURSIVE FirstTokenItems(_, _, _)
FirstTokenItems(m, order, prefix) ==
    IF order = <<>> THEN <<>>
    ELSE (IF StartsWith(order[1], prefix)
            THEN <<SuggestItem(<<"c", "o", "m", "m", "a", "n", "d">>, order[1],
                               IF StrContains(MapGet(m, order[1]).v.usage, "<")
                                 THEN order[1] \o <<" ">> ELSE order[1],
                               MapGet(m, order[1]).v.help, MapGet(m, order[1]).v.usage)>>
            ELSE <<>>)
         \o FirstTokenItems(m, Tail(order), prefix)

\* `items.sort_by(|a, b| a.display.cmp(&b.display))`: a stable sort
RECURSIVE SortByDisplay(_)
SortByDisplay(items) ==
    IF items = <<>> THEN <<>>
    ELSE LET k == CHOOSE i \in 1..Len(items) :
                    /\ \A j \in 1..Len(items) : ~StrLess(items[j].display, items[i].display)
                    /\ \A j \in 1..(i - 1) : items[j].display # items[i].display
         IN  <<items[k]>> \o SortByDisplay(SubSeq(items, 1, k - 1) \o SubSeq(items, k + 1, Len(items)))

\* ConsoleRuntime::suggest_first_token followed by the sort of suggest
SuggestFirstToken(prefix, dyn) ==
    SortByDisplay(FirstTokenItems(Cmds, SortStrs(Keys(Cmds)), prefix)
                  \o FirstTokenItems(dyn, SortStrs(Keys(dyn)), prefix))

\* the items suggest builds from a list of service ids or of method names
RECURSIVE ItemsOf(_, _, _, _, _)
ItemsOf(kind, names, before, help, usage) ==
    IF names = <<>> THEN <<>>
    ELSE <<SuggestItem(kind, names[1], before \o names[1] \o <<" ">>, help, usage)>>
         \o ItemsOf(kind, Tail(names), before, help, usage)

\* ConsoleRuntime::suggest
SuggestOutcomes(input, held, st) ==
    LET ends_with_space == input # <<>> /\ input[Len(input)] = " "
        tokens == SplitWhitespace(TrimStart(input))
        head == TokenOr(tokens, 1)
        sid == TokenOr(tokens, 2)
        want_methods == Len(tokens) >= 3 \/ (ends_with_space /\ Len(tokens) = 2)
        describe_usage == MapGet(Cmds, <<"d", "e", "s", "c", "r", "i", "b", "e">>).v.usage
        call_usage == MapGet(Cmds, <<"c", "a", "l", "l">>).v.usage
    IN  IF tokens = <<>> \/ (Len(tokens) = 1 /\ ~ends_with_space)
          THEN IF "dyn_cmds" \in held THEN {ListStuck(st)}
               ELSE {ListRet(<<>>, <<>>, SuggestFirstToken(head, st.dyn), st)}
        ELSE IF head = <<"d", "e", "s", "c", "r", "i", "b", "e">>
          THEN IF CompleteServiceId(sid, held) = {} THEN {ListStuck(st)}
               ELSE {ListRet(describe_usage, <<>>,
                             ItemsOf(<<"s", "e", "r", "v", "i", "c", "e">>, v, <<"d", "e", "s", "c", "r", "i", "b", "e", " ">>, <<"s", "e", "r", "v", "i", "c", "e", " ", "i", "d">>,
                                     <<"d", "e", "s", "c", "r", "i", "b", "e", " ", "<", "s", "e", "r", "v", "i", "c", "e", "_", "i", "d", ">">>), st) :
                       v \in CompleteServiceId(sid, held)}
        ELSE IF head = <<"c", "a", "l", "l">>
          THEN IF sid = <<>> \/ ~want_methods
                 THEN IF CompleteServiceId(sid, held) = {} THEN {ListStuck(st)}
                      ELSE {ListRet(call_usage, <<>>,
                                    ItemsOf(<<"s", "e", "r", "v", "i", "c", "e">>, v, <<"c", "a", "l", "l", " ">>, <<"s", "e", "r", "v", "i", "c", "e", " ", "i", "d">>,
                                            <<"c", "a", "l", "l", " ", "<", "s", "e", "r", "v", "i", "c", "e", "_", "i", "d", ">", " ", "<", "m", "e", "t", "h", "o", "d", ">", " ", "[", "p", "a", "y", "l", "o", "a", "d", "]">>), st) :
                              v \in CompleteServiceId(sid, held)}
               ELSE IF CompleteMethod(sid, TokenOr(tokens, 3), held, st.cache) = {}
                 THEN {ListStuck(st)}
               ELSE {ListRet(call_usage, <<>>,
                             ItemsOf(<<"m", "e", "t", "h", "o", "d">>, r.items, <<"c", "a", "l", "l", " ">> \o sid \o <<" ">>,
                                     <<"s", "e", "r", "v", "i", "c", "e", " ", "m", "e", "t", "h", "o", "d">>, <<"c", "a", "l", "l", " ", "<", "s", "e", "r", "v", "i", "c", "e", "_", "i", "d", ">", " ", "<", "m", "e", "t", "h", "o", "d", ">", " ", "[", "p", "a", "y", "l", "o", "a", "d", "]">>),
                             [st EXCEPT !.cache = r.cache]) :
                       r \in CompleteMethod(sid, TokenOr(tokens, 3), held, st.cache)}
        ELSE IF MapContains(Cmds, head)
          THEN {ListRet(MapGet(Cmds, head).v.usage, <<>>, <<>>, st)}
        ELSE IF "dyn_cmds" \in held THEN {ListStuck(st)}
        ELSE IF MapContains(st.dyn, head)
          THEN {ListRet(MapGet(st.dyn, head).v.usage, <<>>, <<>>, st)}
        ELSE {ListRet(<<>>, <<>>, <<>>, st)}

\* CommandService::call
CommandCall(method, payload, held, st) ==
    IF method = EXEC
      THEN {IF e.stuck THEN CallStuck(e.st, e.calls)
            ELSE CallRet(Reply("ROk", "exec", e.tag = "Ok", e.out, <<>>, <<>>, <<>>),
                         e.st, e.calls) :
              e \in ExecOutcomes(payload, held, st)}
    ELSE IF method = COMPLETE
      THEN {IF r.stuck THEN CallStuck(r.st, <<>>)
            ELSE CallRet(Reply("ROk", "complete", FALSE, Text(<<>>), r.items, <<>>, <<>>),
                         r.st, <<>>) :
              r \in CompleteOutcomes(payload, held, st)}
    ELSE IF method = SUGGEST
      THEN {IF r.stuck THEN CallStuck(r.st, <<>>)
            ELSE CallRet(Reply("ROk", "suggest", FALSE, Text(<<>>), <<>>, r.sitems, r.sig),
                         r.st, <<>>) :
              r \in SuggestOutcomes(payload, held, st)}
    ELSE IF method = REFRESH
      THEN IF RefreshDynCommands(held, st) = {} THEN {CallStuck(st, <<>>)}
           ELSE {CallRet(Reply("ROk", "refresh", TRUE, Text(<<>>), <<>>, <<>>, <<>>), st2, <<>>) :
                    st2 \in RefreshDynCommands(held, st)}
    ELSE {CallRet(Reply("RErr", "", FALSE, Text(<<"u", "n", "k", "n", "o", "w", "n", " ", "m", "e", "t", "h", "o", "d">>), <<>>, <<>>, <<>>), st, <<>>)}

\* the (method, payload) pairs given to the CommandService
Requests ==
    {<<EXEC, line>> : line \in Lines}
    \cup {<<COMPLETE, input>> : input \in Inputs}
    \cup {<<SUGGEST, input>> : input \in Inputs}
    \cup {<<REFRESH, <<>>>>, <<<<"n", "o", "p", "e">>, <<>>>>}

\* a call of the CommandService by a holder of the service, no console or
\* registry mutex held; a call that cannot return leaves the console stuck
ConsoleCall(method, payload) ==
    /\ cpc = "idle"
    /\ rt_init
    /\ \E c \in CommandCall(method, payload, {}, RtState) :
          /\ dyn_cmds' = c.st.dyn
          /\ method_cache' = c.st.cache
          /\ rt_exit_requested' = c.st.exit
          /\ cpc' = IF c.stuck THEN "stuck" ELSE "idle"
          /\ clast' = [method |-> method,
                       route |-> IF method = EXEC THEN ExecRoute(payload, dyn_cmds) ELSE "",
                       rtag |-> c.reply.rtag, ok |-> c.reply.ok, ncalls |-> Len(c.calls)]
    /\ UNCHANGED <<services, services_generation, rt_init>>
    /\ UNCHANGED <<engine_vars, res_vars, bus_vars, plugin_vars, ext_vars>>

\* take_exit_requested: `exit_requested.swap(false)`
TakeExitRequested ==
    /\ cpc = "idle"
    /\ rt_init
    /\ rt_exit_requested
    /\ rt_exit_requested' = FALSE
    /\ UNCHANGED <<services, services_generation, rt_init, dyn_cmds, method_cache, cpc, clast>>
    /\ UNCHANGED <<engine_vars, res_vars, bus_vars, plugin_vars, ext_vars>>

\* init_host_context, before the console exists
HostContextNew ==
    /\ services = {}
    /\ services_generation = 1
    /\ rt_init = FALSE
    /\ dyn_cmds = {}
    /\ method_cache = {}
    /\ rt_exit_requested = FALSE
    /\ cpc = "idle"
    /\ clast = [method |-> <<>>, route |-> "", rtag |-> "", ok |-> FALSE, ncalls |-> 0]

\* registration of a service under `id`: the entry is inserted and the
\* generation bumped
RegisterService(id, svc) ==
    /\ cpc = "idle"
    /\ services_generation < MaxGeneration
    /\ services' = MapInsert(services, id, svc)
    /\ services_generation' = BumpServicesGeneration(services_generation)
    /\ UNCHANGED <<rt_init, dyn_cmds, method_cache, rt_exit_requested, cpc, clast>>
    /\ UNCHANGED <<engine_vars, res_vars, bus_vars, plugin_vars, ext_vars>>

\* removal of the service registered under `id`
RemoveService(id) ==
    /\ cpc = "idle"
    /\ services_generation < MaxGeneration
    /\ MapContains(services, id)
    /\ services' = MapRemove(services, id)
    /\ services_generation' = BumpServicesGeneration(services_generation)
    /\ UNCHANGED <<rt_init, dyn_cmds, method_cache, rt_exit_requested, cpc, clast>>
    /\ UNCHANGED <<engine_vars, res_vars, bus_vars, plugin_vars, ext_vars>>

\* a registered plugin service starts to answer describe() with another
\* document; the registry is not touched
DescribeChanges(id, svc) ==
    /\ cpc = "idle"
    /\ MapContains(services, id)
    /\ MapGet(services, id).v # svc
    /\ services' = MapInsert(services, id, svc)
    /\ UNCHANGED <<services_generation, rt_init, dyn_cmds, method_cache,
                   rt_exit_requested, cpc, clast>>
    /\ UNCHANGED <<engine_vars, res_vars, bus_vars, plugin_vars, ext_vars>>

\* init_console_service: RT.get_or_init, refresh_dyn_commands, then the
\* CommandService is registered
InitConsoleService ==
    /\ cpc = "idle"
    /\ services_generation < MaxGeneration
    /\ rt_init' = TRUE
    /\ \E st \in RefreshDynCommands({}, RtState) :
          /\ dyn_cmds' = st.dyn
          /\ method_cache' = st.cache
    /\ services' = MapInsert(services, COMMAND_SERVICE_ID, CommandServiceV)
    /\ services_generation' = BumpServicesGeneration(services_generation)
    /\ clast' = [method |-> <<>>, route |-> "", rtag |-> "", ok |-> FALSE, ncalls |-> 0]
    /\ UNCHANGED <<rt_exit_requested, cpc>>
    /\ UNCHANGED <<engine_vars, res_vars, bus_vars, plugin_vars, ext_vars>>

\* -------------------------------------------------------------- AssetStore
\* The diagnostics counters (StoreInner.diag) and the log lines are left out:
\* nothing reads them back.

\* the AssetKeys given to load(); key k has the AssetId k
AssetKeys == 1..NumKeys
KeyId(k) == k

\* Path::extension of the logical path of key k
PathExtension(k) ==
    CASE k % 6 = 1 -> SomeStr(<<"p", "n", "g">>)
      [] k % 6 = 2 -> SomeStr(<<"P", "N", "G">>)
      [] k % 6 = 3 -> NoStr
      [] k % 6 = 4 -> SomeStr(<<"d", "d", "s">>)
      [] k % 6 = 5 -> SomeStr(<<>>)
      [] OTHER -> SomeStr(<<"p", "n", "g">>)

\* char::to_ascii_lowercase, for the characters used
AsciiLower(c) ==
    CASE c = "P" -> "p" [] c = "N" -> "n" [] c = "G" -> "g" [] OTHER -> c
ToAsciiLowercase(s) == [i \in 1..Len(s) |-> AsciiLower(s[i])]

\* extension_ascii_lower
ExtensionAsciiLower(k) ==
    LET ext == PathExtension(k)
    IN  IF ~ext.some \/ ext.v = <<>> THEN NoStr ELSE SomeStr(ToAsciiLowercase(ext.v))

\* `trim_start_matches('.')`
RECURSIVE TrimStartMatchesDot(_)
TrimStartMatchesDot(s) ==
    IF s # <<>> /\ s[1] = "." THEN TrimStartMatchesDot(Tail(s)) ELSE s

\* normalize_ext
NormalizeExt(ext) == ToAsciiLowercase(TrimStartMatchesDot(Trim(ext)))

\* the importers the host registers, each at most once
Importers ==
    {[stable_id |-> <<"a">>, priority |-> 0, type_id |-> "texture", extensions |-> <<<<".", "P", "N", "G">>>>],
     [stable_id |-> <<"b">>, priority |-> 1, type_id |-> "image", extensions |-> <<<<" ", "p", "n", "g">>, <<"p", "n", "g">>>>]}

\* the order `list.sort_by` establishes: higher priority first, then by
\* stable_id
ImporterBefore(a, b) ==
    \/ a.priority > b.priority
    \/ a.priority = b.priority /\ StrLess(a.stable_id, b.stable_id)

\* `list.push(importer); list.sort_by(..)` on a sorted list: a stable sort
\* puts the new element behind the elements it does not precede
RECURSIVE PushSorted(_, _)
PushSorted(list, imp) ==
    IF list = <<>> THEN <<imp>>
    ELSE IF ImporterBefore(imp, list[1]) THEN <<imp>> \o list
    ELSE <<list[1]>> \o PushSorted(Tail(list), imp)

\* `importers_by_ext.get(&ext).cloned().unwrap_or_default()`
ImportersOf(m, ext) == IF MapContains(m, ext) THEN MapGet(m, ext).v ELSE <<>>

\* the loop over `exts` of add_importer
RECURSIVE BindExts(_, _, _)
BindExts(m, imp, exts) ==
    IF exts = <<>> THEN m
    ELSE LET norm_ext == NormalizeExt(exts[1])
         IN  BindExts(MapInsert(m, norm_ext, PushSorted(ImportersOf(m, norm_ext), imp)),
                      imp, Tail(exts))

\* AssetState
Unloaded == [tag |-> "Unloaded", err |-> ""]
Loading == [tag |-> "Loading", err |-> ""]
Ready == [tag |-> "Ready", err |-> ""]
Failed(err) == [tag |-> "Failed", err |-> err]

\* `state.get(&id).cloned().unwrap_or(AssetState::Unloaded)`
StateOf(m, id) == IF MapContains(m, id) THEN MapGet(m, id).v ELSE Unloaded

\* PendingRequest
PendingRequest(id, key, type_id) == [id |-> id, key |-> key, type_id |-> type_id]
NoRequest == PendingRequest(0, 0, "")

\* AssetEvent::Ready / AssetEvent::Failed
ReadyEvent(id, type_id) == [kind |-> "Ready", id |-> id, type_id |-> type_id, error |-> ""]
FailedEvent(id, type_id, error) ==
    [kind |-> "Failed", id |-> id, type_id |-> type_id, error |-> error]

\* Result<AssetId, AssetError> of load; `ext` is the extension the message
\* of the error names, `queued` tells whether the call pushed a request
LoadRet(tag, id, msg, ext, queued) ==
    [op |-> "load", tag |-> tag, id |-> id, msg |-> msg, ext |-> ext, queued |-> queued]

\* AssetStore::new
AssetStoreNew ==
    /\ a_state = {}
    /\ blobs = {}
    /\ a_queue = <<>>
    /\ a_events = <<>>
    /\ importers_by_ext = {}
    /\ sources = FALSE
    /\ apc = "idle"
    /\ steps_left = 0
    /\ req = NoRequest
    /\ budget = 0
    /\ popped = 0
    /\ enq = <<>>
    /\ deq = <<>>
    /\ alast = [op |-> "new", tag |-> "Ok", id |-> 0, msg |-> "", ext |-> <<>>,
                queued |-> FALSE]

\* add_source
AddSource ==
    /\ sources' = TRUE
    /\ UNCHANGED <<a_state, blobs, a_queue, a_events, importers_by_ext, apc, steps_left,
                   req, budget, popped, enq, deq, alast>>
    /\ UNCHANGED <<host_vars, core_vars, winit_vars, prod_vars>>

\* add_importer
AddImporter(imp) ==
    /\ \A e \in importers_by_ext : imp \notin Range(e.v)
    /\ importers_by_ext' = BindExts(importers_by_ext, imp, imp.extensions)
    /\ UNCHANGED <<a_state, blobs, a_queue, a_events, sources, apc, steps_left,
                   req, budget, popped, enq, deq, alast>>
    /\ UNCHANGED <<host_vars, core_vars, winit_vars, prod_vars>>

\* variant: a failed asset is requested again
AlreadyRequestedNotFailed(s) == s.tag \in {"Ready", "Loading"}

\* the first match of load: `Some(Ready) | Some(Loading) | Some(Failed(_))`
AlreadyRequested(s) == s.tag \in {"Ready", "Loading", "Failed"}

\* AssetStore::load (AssetManager::load forwards to it), one lock region
Load(key) ==
    LET id == KeyId(key)
        ext == ExtensionAsciiLower(key)
        importers == ImportersOf(importers_by_ext, ext.v)
    IN  /\ IF AlreadyRequested(StateOf(a_state, id))
             THEN /\ alast' = LoadRet("Ok", id, "", <<>>, FALSE)
                  /\ UNCHANGED <<a_state, a_queue, enq>>
           ELSE IF ~ext.some
             THEN /\ alast' = LoadRet("Err", 0, "AssetStore: asset path has no extension", <<>>,
                                      FALSE)
                  /\ UNCHANGED <<a_state, a_queue, enq>>
           ELSE IF importers = <<>>
             THEN /\ alast' = LoadRet("Err", 0,
                                      "AssetStore: no importer registered for extension", ext.v,
                                      FALSE)
                  /\ UNCHANGED <<a_state, a_queue, enq>>
           ELSE /\ a_state' = MapInsert(a_state, id, Loading)
                /\ a_queue' = Append(a_queue, PendingRequest(id, key, importers[1].type_id))
                /\ enq' = Append(enq, id)
                /\ alast' = LoadRet("Ok", id, "", <<>>, TRUE)
        /\ UNCHANGED <<blobs, a_events, importers_by_ext, sources, apc, steps_left, req,
                       budget, popped, deq>>
        /\ UNCHANGED <<host_vars, core_vars, winit_vars, prod_vars>>

\* pump: entry, `steps_left = budget.steps`
PumpBegin(steps) ==
    /\ apc = "idle"
    /\ apc' = "loop"
    /\ steps_left' = steps
    /\ budget' = steps
    /\ popped' = 0
    /\ UNCHANGED <<a_state, blobs, a_queue, a_events, importers_by_ext, sources, req, enq,
                   deq, alast>>
    /\ UNCHANGED <<host_vars, core_vars, winit_vars, prod_vars>>

\* variant: the loop goes on while the queue has requests
BudgetLeftAlways(n) == TRUE

\* `while steps_left > 0`
BudgetLeft(n) == n > 0

\* pump: the loop head and `queue.pop_front()`; an empty queue ends the call
PumpPop ==
    /\ apc = "loop"
    /\ IF ~BudgetLeft(steps_left) \/ a_queue = <<>>
         THEN /\ apc' = "idle"
              /\ steps_left' = 0
              /\ budget' = 0
              /\ popped' = 0
              /\ UNCHANGED <<a_queue, req, deq>>
       ELSE /\ apc' = "process"
            /\ steps_left' = steps_left - 1
            /\ req' = Head(a_queue)
            /\ a_queue' = Tail(a_queue)
            /\ popped' = popped + 1
            /\ deq' = Append(deq, Head(a_queue).id)
            /\ UNCHANGED budget
    /\ UNCHANGED <<a_state, blobs, a_events, importers_by_ext, sources, enq, alast>>
    /\ UNCHANGED <<host_vars, core_vars, winit_vars, prod_vars>>

\* select_importer
SelectImporter(key) ==
    LET ext == ExtensionAsciiLower(key)
    IN  IF ~ext.some \/ ~MapContains(importers_by_ext, ext.v)
           \/ ImportersOf(importers_by_ext, ext.v) = <<>>
          THEN NoStr
        ELSE SomeStr(ImportersOf(importers_by_ext, ext.v)[1].stable_id)

\* what the sources and the importer answer for one request
ReadResults == {"bytes", "not_found"}
ImportResults == {"blob", "error"}

\* the Err of process_one, "" for Ok(()): `read` is what
\* read_from_any_source finds, `import` what import_blob returns
ProcessError(r, read, import) ==
    IF ~sources THEN "AssetStore: no sources registered"
    ELSE IF read # "bytes" THEN "AssetStore: asset not found in any source"
    ELSE IF ~SelectImporter(r.key).some THEN "AssetStore: importer not found at dispatch time"
    ELSE IF import # "blob" THEN "import failed"
    ELSE ""

\* pump: process_one(req) and, on Err, the Failed transition
ProcessOne(read, import) ==
    /\ apc = "process"
    /\ LET err == ProcessError(req, read, import)
       IN  IF err = ""
             THEN /\ blobs' = blobs \cup {req.id}
                  /\ a_state' = MapInsert(a_state, req.id, Ready)
                  /\ a_events' = Append(a_events, ReadyEvent(req.id, req.type_id))
           ELSE /\ a_state' = MapInsert(a_state, req.id, Failed(err))
                /\ a_events' = Append(a_events, FailedEvent(req.id, req.type_id, err))
                /\ UNCHANGED blobs
    /\ apc' = "loop"
    /\ req' = NoRequest
    /\ UNCHANGED <<a_queue, importers_by_ext, sources, steps_left, budget, popped, enq,
                   deq, alast>>
    /\ UNCHANGED <<host_vars, core_vars, winit_vars, prod_vars>>

\* ----------------------------------------- engine_core: Engine and EngineApp

\* commands.rs: the EngineEvent variants engine.rs emits
ShutdownRequested == "ShutdownRequested"
\* winit WindowEvent as window_event matches it; "Other" is the `_` arm
WindowEvents == {"CloseRequested", "Resized", "Focused", "RedrawRequested", "Other"}

\* module.rs: the hooks of trait Module
CoreHooks == {"register", "on_event", "update", "fixed_update", "render", "shutdown"}
\* the hook that returns Err while one winit callback runs: hook h of
\* module m, or none
NoFail == <<"none", 0>>
FailPoints == {NoFail} \cup (CoreHooks \X (1..NumModules))

\* one hook invocation, or the entry into modules_shutdown (module 0)
Call(h, m, ok) == [hook |-> h, module |-> m, ok |-> ok]

\* `for m in mods.iter_mut() { m.hook(&mut ctx)
\*      .map_err(|e| EngineError::Module { .. })?; }`
\* the invocations made from position k on; the `?` ends the loop at the
\* first Err
RECURSIVE HookLoop(_, _, _, _)
HookLoop(h, mods, k, f) ==
    IF k > Len(mods) THEN <<>>
    ELSE IF f = <<h, mods[k]>> THEN <<Call(h, mods[k], FALSE)>>
    ELSE <<Call(h, mods[k], TRUE)>> \o HookLoop(h, mods, k + 1, f)

\* the Engine method returned Err
Errs(calls) == calls # <<>> /\ ~calls[Len(calls)].ok

ModulesRegister(mods, f) == HookLoop("register", mods, 1, f)
ModulesEvent(mods, f) == HookLoop("on_event", mods, 1, f)
ModulesUpdate(mods, f) == HookLoop("update", mods, 1, f)
ModulesFixed(mods, f) == HookLoop("fixed_update", mods, 1, f)
ModulesRender(mods, f) == HookLoop("render", mods, 1, f)
\* Engine::modules_shutdown: the same forward loop with `?`
ModulesShutdown(mods, f) ==
    <<Call("modules_shutdown", 0, TRUE)>> \o HookLoop("shutdown", mods, 1, f)

\* FixedStep::push: `self.acc += dt; self.acc = self.acc.min(self.fixed_dt * 8.0)`
FixedStepPush(a, d) == Min(a + d, FixedDt * 8)

\* tick(): `for ev in drained { if matches!(ev, ShutdownRequested) {
\*     modules_shutdown()?; shutdown.set(); }  modules_event(&ev)?; }`
\* from the k-th drained event on; sd is the ShutdownFlag
RECURSIVE DispatchDrained(_, _, _, _, _)
DispatchDrained(mods, drained, k, sd, f) ==
    IF k > Len(drained) THEN [calls |-> <<>>, shutdown |-> sd, ok |-> TRUE]
    ELSE
      LET isSd == drained[k] = ShutdownRequested
          s == IF isSd THEN ModulesShutdown(mods, f) ELSE <<>>
      IN  IF Errs(s) THEN [calls |-> s, shutdown |-> sd, ok |-> FALSE]
          ELSE
            LET sd1 == sd \/ isSd
                e == ModulesEvent(mods, f)
            IN  IF Errs(e)
                  THEN [calls |-> s \o e, shutdown |-> sd1, ok |-> FALSE]
                  ELSE LET rest == DispatchDrained(mods, drained, k + 1, sd1, f)
                       IN  [calls |-> s \o e \o rest.calls,
                            shutdown |-> rest.shutdown, ok |-> rest.ok]

\* tick(): `while self.engine.scheduler.fixed.pop() { modules_fixed(fixed_dt)?; }`
\* with FixedStep::pop
RECURSIVE FixedLoop(_, _, _)
FixedLoop(mods, a, f) ==
    IF a < FixedDt THEN [calls |-> <<>>, acc |-> a, ok |-> TRUE]
    ELSE
      LET c == ModulesFixed(mods, f)
      IN  IF Errs(c) THEN [calls |-> c, acc |-> a - FixedDt, ok |-> FALSE]
          ELSE LET r == FixedLoop(mods, a - FixedDt, f)
               IN  [calls |-> c \o r.calls, acc |-> r.acc, ok |-> r.ok]

\* EngineApp::tick; `flag` is what shutdown.is_set() reads on entry
Tick(mods, events, a, d, flag, f) ==
    LET ev1 == IF flag THEN Append(events, ShutdownRequested) ELSE events
        a1 == FixedStepPush(a, d)
        dr == DispatchDrained(mods, ev1, 1, flag, f)
        up == IF dr.ok THEN ModulesUpdate(mods, f) ELSE <<>>
        upOk == dr.ok /\ ~Errs(up)
        fx == IF upOk THEN FixedLoop(mods, a1, f)
              ELSE [calls |-> <<>>, acc |-> a1, ok |-> FALSE]
    IN  [calls |-> dr.calls \o up \o fx.calls, shutdown |-> dr.shutdown,
         acc |-> fx.acc, ok |-> fx.ok]

\* history: how often each module's shutdown hook has been invoked, 2
\* standing for twice or more
ShutRuns(runs, calls) ==
    [m \in DOMAIN runs |->
       Min(2, runs[m] + Cardinality({i \in 1..Len(calls) :
                          calls[i].hook = "shutdown" /\ calls[i].module = m}))]

\* history: the modules that get a hook of `calls` other than shutdown
\* after their shutdown hook has been invoked
LateCalls(runs, calls) ==
    {calls[i].module : i \in {i \in 1..Len(calls) :
        /\ calls[i].hook \in {"on_event", "update", "fixed_update", "render"}
        /\ \/ runs[calls[i].module] > 0
           \/ \E j \in 1..(i - 1) : /\ calls[j].hook = "shutdown"
                                    /\ calls[j].module = calls[i].module}}

NoShutdown == [called |-> FALSE, order |-> <<>>, failed |-> FALSE]

\* history: the modules whose hook the last modules_shutdown call of `calls`
\* invoked, in order, and whether one of them returned Err
LastShutdown(prev, calls) ==
    LET marks == {i \in 1..Len(calls) : calls[i].hook = "modules_shutdown"}
    IN  IF marks = {} THEN prev
        ELSE
          LET k == CHOOSE i \in marks : \A j \in marks : j <= i
              IsHook(c) == c.hook = "shutdown"
              s == SelectSeq(SubSeq(calls, k + 1, Len(calls)), IsHook)
          IN  [called |-> TRUE,
               order |-> [i \in 1..Len(s) |-> s[i].module],
               failed |-> \E i \in 1..Len(s) : ~s[i].ok]

\* Engine::new, EngineApp::new
CoreEngineNew ==
    /\ ec_modules = <<>>
    /\ ec_events = <<>>
    /\ ec_shutdown = FALSE
    /\ ec_acc = 0
    /\ ec_window = FALSE
    /\ ec_started = FALSE
    /\ ec_phase = "new"
    /\ shut_runs = [m \in 1..NumModules |-> 0]
    /\ shut_last = NoShutdown
    /\ ec_late = {}

\* the histories after a callback that made `calls`
Record(calls) ==
    /\ shut_runs' = ShutRuns(shut_runs, calls)
    /\ shut_last' = LastShutdown(shut_last, calls)
    /\ ec_late' = ec_late \cup LateCalls(shut_runs, calls)

\* Engine::add_module; modules are named after their position
AddModule ==
    /\ ec_phase = "new"
    /\ Len(ec_modules) < NumModules
    /\ ec_modules' = Append(ec_modules, Len(ec_modules) + 1)
    /\ UNCHANGED <<ec_events, ec_shutdown, ec_acc, ec_window, ec_started, ec_phase,
                   shut_runs, shut_last, ec_late>>
    /\ UNCHANGED <<host_vars, asset_vars, winit_vars, prod_vars>>

\* Engine::run: the event loop starts
Run ==
    /\ ec_phase = "new"
    /\ ec_phase' = "run"
    /\ UNCHANGED <<ec_modules, ec_events, ec_shutdown, ec_acc, ec_window, ec_started,
                   shut_runs, shut_last, ec_late>>
    /\ UNCHANGED <<host_vars, asset_vars, winit_vars, prod_vars>>

\* the ctrlc handler installed by ShutdownFlag::install_ctrlc, on its thread
CtrlC ==
    /\ ~ec_shutdown
    /\ ec_shutdown' = TRUE
    /\ UNCHANGED <<ec_modules, ec_events, ec_acc, ec_window, ec_started, ec_phase,
                   shut_runs, shut_last, ec_late>>
    /\ UNCHANGED <<host_vars, asset_vars, winit_vars, prod_vars>>

\* ApplicationHandler::resumed
Resumed(f) ==
    /\ ec_phase = "run"
    /\ ~ec_window
    /\ ec_window' = TRUE
    /\ LET calls == ModulesRegister(ec_modules, f)
       IN  /\ IF Errs(calls)
                THEN ec_phase' = "exited" /\ UNCHANGED ec_started
                ELSE ec_started' = TRUE /\ UNCHANGED ec_phase
           /\ Record(calls)
    /\ UNCHANGED <<ec_modules, ec_events, ec_shutdown, ec_acc>>
    /\ UNCHANGED <<host_vars, asset_vars, winit_vars, prod_vars>>

\* the event `window_event` emits on the bus for a window event
EmittedFor(e) ==
    CASE e = "CloseRequested" -> <<ShutdownRequested>>
      [] e = "Resized" -> <<"WindowResized">>
      [] e = "Focused" -> <<"FocusChanged">>
      [] OTHER -> <<>>

\* ApplicationHandler::window_event
WindowEvent(e, f) ==
    /\ ec_phase = "run"
    /\ ec_window
    /\ Len(ec_events) < MaxPending
    /\ LET calls == IF e = "RedrawRequested" /\ ec_started /\ ~ec_shutdown
                      THEN ModulesRender(ec_modules, f) ELSE <<>>
       IN  /\ ec_events' = IF Errs(calls) THEN Append(ec_events, ShutdownRequested)
                           ELSE ec_events \o EmittedFor(e)
           /\ Record(calls)
    /\ ec_phase' = IF ec_shutdown THEN "exited" ELSE ec_phase
    /\ UNCHANGED <<ec_modules, ec_shutdown, ec_acc, ec_window, ec_started>>
    /\ UNCHANGED <<host_vars, asset_vars, winit_vars, prod_vars>>

\* ApplicationHandler::about_to_wait.  `sig`: the ctrlc handler stores the
\* flag after about_to_wait has read it and before tick reads it.
AboutToWait(d, sig, f) ==
    /\ ec_phase = "run"
    /\ IF ~ec_started
         THEN /\ ~sig
              /\ UNCHANGED <<ec_events, ec_shutdown, ec_acc, ec_phase,
                             shut_runs, shut_last, ec_late>>
         ELSE IF ec_shutdown
           THEN /\ ~sig
                /\ ec_phase' = "exited"
                /\ UNCHANGED <<ec_events, ec_shutdown, ec_acc,
                               shut_runs, shut_last, ec_late>>
           ELSE LET t == Tick(ec_modules, ec_events, ec_acc, d, sig, f)
                IN  /\ ec_events' = <<>>
                    /\ ec_shutdown' = t.shutdown
                    /\ ec_acc' = t.acc
                    /\ ec_phase' = IF t.ok THEN ec_phase ELSE "exited"
                    /\ Record(t.calls)
    /\ UNCHANGED <<ec_modules, ec_window, ec_started>>
    /\ UNCHANGED <<host_vars, asset_vars, winit_vars, prod_vars>>

\* ------------------------------------------- newengine-platform-winit: App

\* winit WindowEvent as App::window_event matches it: "Escape" is a
\* KeyboardInput with the Escape key pressed, "Other" any other event
WinitEvents == {"CloseRequested", "Escape", "Resized", "ScaleFactorChanged",
                "Focused", "Other"}

\* what a `let _ = self.engine.dispatch_external_event(..)` leaves behind
\* for the loop: its result is dropped, and an on_external_event hook may
\* have called request_exit (x) when there is a module to call
DispatchedExit(x) == exit_requested \/ (x /\ modules # <<>>)

\* App::new
WinitAppNew ==
    /\ w_window = FALSE
    /\ w_phase = "new"
    /\ w_frames = 0
    /\ w_shutdowns = 0

\* the application registers its modules before it hands the engine over
WinitRegister(o) ==
    /\ w_phase = "new"
    /\ RegisterModule(o)

\* run_winit_app, entry: EventLoop::new, App::new, run_app
RunWinitApp ==
    /\ w_phase = "new"
    /\ pc = "idle"
    /\ w_phase' = "run"
    /\ UNCHANGED <<w_window, w_frames, w_shutdowns>>
    /\ UNCHANGED <<host_vars, asset_vars, core_vars, prod_vars>>

\* the step() begun by about_to_wait has returned and its result has not
\* been matched yet: an Ok frame carries the index of the frame it made
StepReturned ==
    /\ pc = "idle"
    /\ result.op = "step"
    /\ \/ result.tag = "Frame" /\ result.frame_index = w_frames
       \/ result.tag = "Err" /\ w_phase = "run"

\* winit calls one callback at a time, and none once event_loop.exit()
\* has been called
CallbackDue == w_phase = "run" /\ pc = "idle" /\ ~StepReturned

\* App::resumed: create the window, emit_window_ready, request_redraw
WinitResumed(x) ==
    /\ CallbackDue
    /\ ~w_window
    /\ w_window' = TRUE
    /\ exit_requested' = DispatchedExit(x)
    /\ UNCHANGED <<w_phase, w_frames, w_shutdowns>>
    /\ UNCHANGED <<modules, frame_index, acc, pc, idx, fixed_steps, dt, trace,
                   result, acc_in, after_exit, event>>
    /\ UNCHANGED <<res_vars, bus_vars, plugin_vars, console_vars, asset_vars, core_vars, prod_vars>>

\* variant: only the close button ends the loop
ClosesOnCloseOnly(e) == e = "CloseRequested"

\* `if close_requested || esc_pressed { Self::exit(event_loop); return; }`
Closes(e) == e \in {"CloseRequested", "Escape"}

\* App::window_event
WinitWindowEvent(e, x) ==
    /\ CallbackDue
    /\ w_window
    /\ exit_requested' = DispatchedExit(x)
    /\ w_phase' = IF Closes(e) THEN "exiting" ELSE w_phase
    /\ UNCHANGED <<w_window, w_frames, w_shutdowns>>
    /\ UNCHANGED <<modules, frame_index, acc, pc, idx, fixed_steps, dt, trace,
                   result, acc_in, after_exit, event>>
    /\ UNCHANGED <<res_vars, bus_vars, plugin_vars, console_vars, asset_vars, core_vars, prod_vars>>

\* App::about_to_wait, `self.engine.step()` is entered
WinitAboutToWait(d) ==
    /\ CallbackDue
    /\ StepBegin(d)

\* App::about_to_wait, `match self.engine.step()`: Ok(_) => request_redraw,
\* Err(ExitRequested) and Err(_) => event_loop.exit()
WinitStepMatched ==
    /\ StepReturned
    /\ IF result.tag = "Frame"
         THEN w_frames' = w_frames + 1 /\ UNCHANGED w_phase
         ELSE w_phase' = "exiting" /\ UNCHANGED w_frames
    /\ UNCHANGED <<w_window, w_shutdowns>>
    /\ UNCHANGED <<host_vars, asset_vars, core_vars, prod_vars>>

\* run_winit_app, exit: run_app returns, its result is mapped and returned;
\* `app`, and the engine it owns, is dropped
WinitReturn ==
    /\ w_phase = "exiting"
    /\ w_phase' = "returned"
    /\ UNCHANGED <<w_window, w_frames, w_shutdowns>>
    /\ UNCHANGED <<host_vars, asset_vars, core_vars, prod_vars>>

\* ------------------------------------------------------------ properties

StepPcs == {"fixed_head", "fixed_update", "update", "render"}
Last(s) == s[Len(s)]
HookCount(h) == Cardinality({k \in 1..Len(trace) : trace[k].hook = h})

\* C1: Engine::shutdown() invokes the shutdown hook of every registered
\* module exactly once, in the order m_n, ..., m_1, and returns Ok whatever
\* the hooks returned: a failing hook does not stop the remaining hooks.
C1_ShutdownReverseOrder ==
    /\ (pc = "shutdown" => Len(trace) = idx - 1)
    /\ (result.op = "shutdown" =>
          /\ Len(trace) <= Len(modules)
          /\ \A k \in 1..Len(trace) :
                /\ trace[k].hook = "shutdown"
                /\ trace[k].module = modules[Len(modules) - k + 1])
    /\ (pc = "idle" /\ result.op = "shutdown" =>
          /\ result.tag = "Ok"
          /\ Len(trace) = Len(modules))

\* shutdown of three modules whose first and second hooks failed
C1_Witness ==
    /\ pc = "idle"
    /\ result.op = "shutdown"
    /\ Len(modules) = 3
    /\ Len(trace) = 3
    /\ trace[1].err # NoErr
    /\ trace[2].err # NoErr
    /\ trace[3].module = modules[1]

\* C2: the accumulator never exceeds 8 x fixed_dt, so one step() runs at
\* most 8 FixedUpdate passes however long the stall before it was.
C2_AccumulatorBounded ==
    /\ acc <= MaxFixedSteps * FixedDt
    /\ fixed_steps <= MaxFixedSteps
    /\ result.fixed_steps <= MaxFixedSteps
    /\ (result.op = "step" =>
          \A m \in Range(modules) :
              Cardinality({k \in 1..Len(trace) :
                  trace[k].hook = "fixed_update" /\ trace[k].module = m}) <= MaxFixedSteps)

\* a step() after a 10 s stall returned a Frame with 8 passes
C2_Witness ==
    /\ pc = "idle"
    /\ result.tag = "Frame"
    /\ result.dt = StallDt
    /\ result.fixed_steps = MaxFixedSteps
    /\ Len(modules) > 0
    /\ HookCount("fixed_update") = MaxFixedSteps * Len(modules)

\* the hook trace of a step() over modules ms that runs k FixedUpdate passes
ExpectedStepTrace(ms, k) ==
    [p \in 1..((k + 2) * Len(ms)) |->
        IF p <= k * Len(ms)
          THEN Entry("fixed_update", ms[((p - 1) % Len(ms)) + 1],
                     ((p - 1) \div Len(ms)) + 1, NoErr)
          ELSE IF p <= (k + 1) * Len(ms)
                 THEN Entry("update", ms[p - k * Len(ms)], k, NoErr)
                 ELSE Entry("render", ms[p - (k + 1) * Len(ms)], k, NoErr)]

\* C3: a successful step() with k fixed steps invokes exactly k passes of
\* fixed_update over the modules in registration order, then update over
\* the modules once, then render over the modules once; with an empty
\* accumulator dt = 3 x fixed_dt gives k = 3.
C3_StepHookOrder ==
    (pc = "idle" /\ result.op = "step" /\ result.tag = "Frame") =>
        /\ trace = ExpectedStepTrace(modules, result.fixed_steps)
        /\ (acc_in = 0 /\ result.dt = 3 * FixedDt => result.fixed_steps = 3)

\* modules A, B, C and one step() with dt = 3 x fixed_dt
C3_Witness ==
    /\ pc = "idle"
    /\ result.op = "step"
    /\ result.tag = "Frame"
    /\ modules = <<1, 2, 3>>
    /\ acc_in = 0
    /\ result.dt = 3 * FixedDt
    /\ HookCount("fixed_update") = 9
    /\ HookCount("update") = 3
    /\ HookCount("render") = 3

\* C4: a step() called with the exit flag set returns ExitRequested, invokes
\* no hook and leaves acc and frame_index alone; the flag is never cleared.
C4_StepRefusedOnExit ==
    [][/\ (exit_requested => exit_requested')
       /\ (pc = "idle" /\ exit_requested /\ result'.op = "step" =>
             /\ pc' = "idle"
             /\ result'.tag = "Err"
             /\ result'.err = ErrExitRequested
             /\ trace' = <<>>
             /\ acc' = acc
             /\ frame_index' = frame_index
             /\ modules' = modules)]_vars

\* a second refused step(): accumulated time is pending, modules are registered
C4_Witness ==
    /\ pc = "idle"
    /\ exit_requested
    /\ result.op = "step"
    /\ result.tag = "Err"
    /\ result.err = ErrExitRequested
    /\ trace = <<>>
    /\ Len(modules) = 2
    /\ acc >= FixedDt
    /\ frame_index = 1

\* C5: the exit flag is not looked at inside step(): a step() that a module
\* asked to exit from still runs every remaining hook and phase and
\* returns its Frame; only a hook's own error ends a running step().
C5_ExitSeenBetweenSteps ==
    /\ (pc = "idle" /\ result.op = "step" /\ result.tag = "Frame" /\ exit_requested =>
          /\ HookCount("fixed_update") = result.fixed_steps * Len(modules)
          /\ HookCount("update") = Len(modules)
          /\ HookCount("render") = Len(modules)
          /\ Len(trace) = (result.fixed_steps + 2) * Len(modules))
    /\ (pc = "idle" /\ result.op = "step" /\ result.tag = "Err" /\ trace # <<>> =>
          /\ Last(trace).err # NoErr
          /\ result.err = Last(trace).err)

\* the first module asked for exit in the first FixedUpdate pass; two more
\* passes and the update and render of all three modules ran after it
C5_Witness ==
    /\ pc = "idle"
    /\ result.op = "step"
    /\ result.tag = "Frame"
    /\ exit_requested
    /\ after_exit
    /\ Len(modules) = 3
    /\ result.fixed_steps = 3
    /\ Len(trace) = 15

\* C6: a failing fixed_update, update or render hook ends step(): step()
\* returns that hook's error and no hook is invoked after it.
C6_HookFailureHaltsStep ==
    result.op = "step" =>
        \A k \in 1..Len(trace) :
            trace[k].err # NoErr =>
                /\ k = Len(trace)
                /\ pc = "idle"
                /\ result.tag = "Err"
                /\ result.err = trace[k].err

\* the first module failed in the first of several pending FixedUpdate passes
C6_Witness ==
    /\ pc = "idle"
    /\ result.op = "step"
    /\ result.tag = "Err"
    /\ Len(modules) = 3
    /\ Len(trace) = 1
    /\ trace[1].hook = "fixed_update"
    /\ trace[1].err = ErrOther("module failure")
    /\ acc >= FixedDt

\* C7 as stated: dispatch_external_event delivers the event to every
\* registered module, exactly once each, in registration order.
C7_Original ==
    (pc = "idle" /\ result.op = "dispatch_external_event") =>
        /\ Len(trace) = Len(modules)
        /\ \A k \in 1..Len(trace) :
              /\ trace[k].hook = "on_external_event"
              /\ trace[k].module = modules[k]
              /\ trace[k].arg = event

\* C7 amended: dispatch_external_event delivers the event in registration
\* order, at most once per module, up to and including the first module
\* whose hook fails, and returns that error; when no hook fails every
\* module receives the event exactly once and the call returns Ok.
C7_DispatchUntilFailure ==
    (pc = "idle" /\ result.op = "dispatch_external_event") =>
        /\ event \in Events
        /\ Len(trace) <= Len(modules)
        /\ \A k \in 1..Len(trace) :
              /\ trace[k].hook = "on_external_event"
              /\ trace[k].module = modules[k]
              /\ trace[k].arg = event
              /\ (k < Len(trace) => trace[k].err = NoErr)
        /\ IF result.tag = "Ok"
             THEN /\ Len(trace) = Len(modules)
                  /\ \A k \in 1..Len(trace) : trace[k].err = NoErr
             ELSE /\ result.tag = "Err"
                  /\ trace # <<>>
                  /\ Last(trace).err = result.err
                  /\ result.err # NoErr

\* an event delivered to all three modules
C7_Witness ==
    /\ pc = "idle"
    /\ result.op = "dispatch_external_event"
    /\ result.tag = "Ok"
    /\ Len(modules) = 3
    /\ Len(trace) = 3
    /\ trace[3].arg = 2

C9_InsertOverwrites ==
    /\ [](\A e1 \in map : \A e2 \in map : e1.k = e2.k => e1 = e2)
    /\ [][rlast'.op = "insert" =>
            /\ rlast'.tag = "Unit"
            /\ rlast'.err = NoErr
            /\ MapGet(map', rlast'.k) = Some(rlast'.arg)
            /\ {e \in map' : e.k # rlast'.k} = {e \in map : e.k # rlast'.k}]_vars

\* an insert overwrote a different value while another type was stored
C9_Witness ==
    /\ rlast.op = "insert"
    /\ rlast.before.tag = "Some"
    /\ rlast.before.v # rlast.arg
    /\ MapGet(map, rlast.k) = Some(rlast.arg)
    /\ Cardinality(map) = 2

RemoveOps == {"remove", "take_required"}

\* C11: remove::<T>() and take_required::<T>(name) on a present T return
\* the stored value of T (the one the latest insert left there) and leave T
\* absent; entries of other types are unchanged; a get or a second remove of
\* T that follows immediately returns None.
C11_RemoveTransfersOwnership ==
    [][ /\ (rlast'.op \in RemoveOps /\ MapContains(map, rlast'.k) =>
              /\ rlast'.tag = (IF rlast'.op = "remove" THEN "Some" ELSE "Ok")
              /\ rlast'.v = MapGet(map, rlast'.k).v
              /\ rlast'.err = NoErr
              /\ ~MapContains(map', rlast'.k)
              /\ \A j \in Types \ {rlast'.k} : MapGet(map', j) = MapGet(map, j))
        /\ (/\ rlast.op = "insert"
            /\ rlast'.op \in RemoveOps
            /\ rlast'.k = rlast.k
            => rlast'.v = rlast.arg)
        /\ (/\ rlast.op \in RemoveOps
            /\ rlast.before.tag = "Some"
            /\ rlast'.op \in {"get", "remove"}
            /\ rlast'.k = rlast.k
            => rlast'.tag = "None" /\ ~MapContains(map', rlast.k)) ]_vars

\* take_required handed out the stored value 2 and left its type absent,
\* while another type stays stored
C11_Witness ==
    /\ rlast.op = "take_required"
    /\ rlast.before = Some(2)
    /\ rlast.tag = "Ok"
    /\ rlast.v = 2
    /\ ~MapContains(map, rlast.k)
    /\ map # {}

Drains == {"drain_into", "drain"}

\* C12: when no item has been received from the bus yet, one drain() or
\* drain_into() call by the only consumer yields every item sent so far, in
\* the order of sending, returns their number and leaves the queue empty; a
\* try_recv() that finds the queue empty returns None and takes nothing.
C12_DrainYieldsAllInOrder ==
    [][ \A t \in Threads :
          /\ (/\ th[t].pc = "recv"
              /\ th[t].op \in Drains
              /\ th'[t].pc = "idle"
              /\ th[t].fresh
              /\ takers \subseteq {ConsumerId(t)}
              => /\ th[t].out = [i \in 1..sent |-> i]
                 /\ queue' = <<>>
                 /\ blast' = BRet(th[t].op, "n", sent))
          /\ (/\ th[t].pc = "recv"
              /\ th[t].op = "try_recv"
              /\ th'[t].pc = "idle"
              /\ queue = <<>>
              => /\ blast' = BRet("try_recv", "None", 0)
                 /\ queue' = <<>>
                 /\ takers' = takers) ]_vars

\* two items were sent, and one drain() by the first consumer returned
\* after it had handed both to its callback
C12_Witness ==
    /\ blast = BRet("drain", "n", 2)
    /\ sent = 2
    /\ queue = <<>>
    /\ takers = {ConsumerId(1)}

\* C13: once the guard records an owner X the record never changes; in a
\* debug build a consumer operation entered by an identity Y # X after that
\* aborts without touching the queue and the aborted thread never reads,
\* while an operation entered by X goes on to the channel.
C13_OwnerBoundOnce ==
    [][ /\ (owner # 0 => owner' = owner)
        /\ \A t \in Threads :
             /\ (/\ th[t].pc = "idle"
                 /\ th'[t].pc # "idle"
                 /\ owner \notin {0, ConsumerId(t)}
                 /\ debug
                 => /\ th'[t].pc = "panicked"
                    /\ queue' = queue
                    /\ takers' = takers)
             /\ (/\ th[t].pc = "idle"
                 /\ th'[t].pc # "idle"
                 /\ owner = ConsumerId(t)
                 => th'[t].pc = "recv")
             /\ (th[t].pc = "panicked" => th'[t] = th[t]) ]_vars

\* identity 1 owns the bus and has received an item; identity 2 then
\* entered a consumer operation in a debug build and was aborted
C13_Witness ==
    /\ debug
    /\ owner = ConsumerId(1)
    /\ takers = {ConsumerId(1)}
    /\ th[2].pc = "panicked"
    /\ th[1].pc = "recv"

\* C14: in a debug build at most one consumer identity ever takes items
\* from the bus, under every interleaving of the threads.
C14_SingleConsumerIdentity ==
    debug => Cardinality(takers) <= 1

\* C15 as stated: no producer ever waits inside send or try_send, whatever
\* the queue holds and whatever channel the Bus was constructed with.
C15_Original ==
    waiting = 0

\* C15: try_send never waits; send starts to wait only on a bounded
\* channel that is full, and never on an unbounded one.
C15_SendWaitsOnlyWhenFull ==
    [][ /\ (waiting' > waiting => cap > 0 /\ Len(queue) = cap /\ queue' = queue)
        /\ (cap = 0 => waiting' = 0)
        /\ (blast'.op = "try_send" /\ blast' # blast => waiting' = waiting) ]_vars

\* the bounded channel is full: a try_send has returned false at once and
\* a send is waiting for room
C15_Witness ==
    /\ cap > 0
    /\ Len(queue) = cap
    /\ waiting = 1
    /\ blast = BRet("try_send", "false", 0)

\* number of LoadedPlugins in ps that carry the id
CountId(ps, id) == Cardinality({i \in DOMAIN ps : ps[i].id = id})

\* C16 as stated: whenever load_dir has examined two plugin files that
\* report the same id, exactly one LoadedPlugin with that id exists and the
\* second file was skipped as a duplicate without a call of its init.
C16_Original ==
    ppc = "load" =>
      \A j \in 1..Len(plog), k \in 1..Len(plog) :
        (/\ j < k
         /\ dir[libs[j]].kind = "plugin"
         /\ dir[libs[k]].kind = "plugin"
         /\ dir[libs[j]].id = dir[libs[k]].id)
        => /\ CountId(plugins, dir[libs[k]].id) = 1
           /\ plog[k].ev = "skip_duplicate"

\* C16: a plugin file whose id is already reserved (by a plugin loaded
\* earlier in this scan or by an earlier load_dir) is skipped with a
\* warning: its init is not called, the plugin list and the id set stay as
\* they were, and exactly one LoadedPlugin with that id exists. Loaded ids
\* are pairwise distinct and are the reserved ids.
C16_DuplicateSkipped ==
    [][ /\ (/\ ppc = "load"
            /\ pidx <= Len(libs)
            /\ pidx' # pidx
            /\ dir[libs[pidx]].kind = "plugin"
            /\ dir[libs[pidx]].id \in ids
            => /\ plugins' = plugins
               /\ ids' = ids
               /\ plog' = Append(plog, PEntry("skip_duplicate", libs[pidx],
                                             dir[libs[pidx]].id, FALSE, "Loaded"))
               /\ CountId(plugins', dir[libs[pidx]].id) = 1)
        /\ \A i \in DOMAIN plugins', j \in DOMAIN plugins' :
              i # j => plugins'[i].id # plugins'[j].id
        /\ (ppc' # "shutdown_clear" => ids' = {plugins'[i].id : i \in DOMAIN plugins'}) ]_vars

\* a scan loaded a plugin and then skipped a later file reporting the
\* same id
C16_Witness ==
    /\ ppc = "load"
    /\ \E j \in 1..Len(plog), k \in 1..Len(plog) :
          /\ j < k
          /\ plog[j].ev = "init"
          /\ plog[j].ok
          /\ plog[k].ev = "skip_duplicate"
          /\ plog[k].id = plog[j].id
    /\ CountId(plugins, "a") = 1

\* ids reserved when the k-th candidate of the running scan is examined
ReservedAt(k) ==
    pbefore.ids \cup {plog[j].id : j \in {i \in 1..(k - 1) : plog[i].ev = "init" /\ plog[i].ok}}

\* what the scan has to do with its k-th candidate, by the file alone
ExpectedFate(k) ==
    IF dir[libs[k]].kind \in {"unloadable", "no_root"} THEN "skip_incompatible"
    ELSE IF dir[libs[k]].id \in ReservedAt(k) THEN "skip_duplicate"
    ELSE "init"

\* the files of the running scan that passed all four checks, in order
Passed == SelectSeq(plog, LAMBDA e : e.ev = "init" /\ e.ok)

\* C17: a file that fails to open, lacks the root symbol, reports a
\* reserved id or fails its init is skipped and the scan goes on: the
\* candidates are the directory's dynamic libraries in sorted order, each
\* is examined in turn, the loaded plugins are those loaded before plus the
\* files that passed all four checks, and load_dir returns Ok unless the
\* directory itself could not be read.
C17_ScanNeverAborts ==
    /\ (ppc = "load" =>
          /\ presult.tag = "running"
          /\ pidx = Len(plog) + 1
          /\ pidx <= Len(libs) + 1
          /\ Range(libs) = {n \in Paths : IsDynlib(dir[n])}
          /\ \A i \in 1..Len(libs), j \in 1..Len(libs) : i < j => libs[i] < libs[j]
          /\ \A k \in 1..Len(plog) :
                /\ plog[k].path = libs[k]
                /\ plog[k].ev = ExpectedFate(k)
          /\ plugins = pbefore.plugins \o
                         [i \in 1..Len(Passed) |-> Loaded(Passed[i].path, Passed[i].id)])
    /\ (ppc = "idle" /\ presult.op = "load_dir" =>
          \/ presult.tag = "Ok"
          \/ presult.tag = "Err" /\ presult.err = "plugins: read_dir failed")

\* a scan of two candidates is complete: the first was skipped and the
\* second was loaded
C17_Witness ==
    /\ ppc = "load"
    /\ pidx > Len(libs)
    /\ Len(plog) = 2
    /\ (plog[1].ev \in {"skip_incompatible", "skip_duplicate"} \/ ~plog[1].ok)
    /\ plog[2].ev = "init"
    /\ plog[2].ok
    /\ plugins # <<>>
    /\ Last(plugins).path = libs[2]

\* C18: a batch call invokes its hook on the loaded plugins in load order
\* (ascending path order for the plugins of one load_dir), stops at the
\* first plugin whose hook fails, and then returns the error text that
\* names the hook and that plugin's id; it returns Ok only when every
\* plugin's hook returned Ok (or, for start_all, when the manager had
\* already been started and nothing was called).
C18_BatchStopsAtFirstFailure ==
    /\ (presult.op \in BatchOps =>
          /\ Len(plog) <= Len(plugins)
          /\ \A k \in 1..Len(plog) :
                /\ plog[k].ev = HookOf(presult.op)
                /\ plog[k].path = plugins[k].path
                /\ plog[k].id = plugins[k].id
                /\ (k < Len(plog) => plog[k].ok)
          /\ (ppc \in BatchOps =>
                /\ pidx = Len(plog) + 1
                /\ \A k \in 1..Len(plog) : plog[k].ok)
          /\ (ppc = "idle" /\ presult.tag = "Ok" =>
                \/ presult.op = "start_all" /\ presult.was_started /\ plog = <<>>
                \/ /\ Len(plog) = Len(plugins)
                   /\ \A k \in 1..Len(plog) : plog[k].ok)
          /\ (ppc = "idle" /\ presult.tag = "Err" =>
                /\ plog # <<>>
                /\ ~Last(plog).ok
                /\ presult.err = "plugins: " \o HookOf(presult.op) \o " failed for id='"
                                   \o Last(plog).id \o "': " \o HookErr)
          /\ (ppc = "idle" => presult.tag \in {"Ok", "Err"}))
    /\ (loads <= 1 =>
          \A i \in DOMAIN plugins, j \in DOMAIN plugins :
             i < j => plugins[i].path < plugins[j].path)

\* update_all over two plugins: the hook of the first failed, the second
\* was not called, and the error names the first
C18_Witness ==
    /\ ppc = "idle"
    /\ presult.op = "update_all"
    /\ presult.tag = "Err"
    /\ Len(plugins) = 2
    /\ Len(plog) = 1
    /\ presult.err = "plugins: update failed for id='" \o plugins[1].id \o "': failed"

\* C19: PluginManager::shutdown() invokes the shutdown hook of every
\* loaded plugin exactly once in reverse load order, then destroys the
\* plugins in reverse load order, and leaves no plugin and no reserved id.
C19_ShutdownReverseDestroy ==
    /\ (ppc = "shutdown_clear" =>
          LET n == Len(pbefore.plugins)
          IN /\ Len(plog) = 2 * n
             /\ plugins = <<>>
             /\ \A k \in 1..n :
                   /\ plog[k].ev = "shutdown"
                   /\ plog[k].path = pbefore.plugins[n - k + 1].path
                   /\ plog[n + k].ev = "drop"
                   /\ plog[n + k].path = pbefore.plugins[n - k + 1].path)
    /\ (ppc = "idle" /\ presult.op = "shutdown" =>
          /\ plugins = <<>>
          /\ ids = {}
          /\ ~started)

\* C20: no plugin receives start before its init succeeded, none receives
\* fixed_update, update or render before its start succeeded, and none
\* receives any call after its shutdown.
C20_LifecycleOrder ==
    \A k \in 1..Len(plog) :
       /\ (plog[k].ev = "start" => plog[k].st \in {"Initialized", "Started"})
       /\ (plog[k].ev \in {"fixed_update", "update", "render"} => plog[k].st = "Started")
       /\ \A j \in 1..(k - 1) :
             plog[j].path = plog[k].path /\ plog[j].ev \in {"shutdown", "drop"}
             => plog[k].ev = "drop" /\ plog[j].ev = "shutdown"

\* C23: after Engine::shutdown() has returned the engine holds no module
\* (so no later call can reach a module hook).
C23_ModulesDestroyedAtShutdown ==
    pc = "idle" /\ result.op = "shutdown" => modules = <<>>

\* C24: register_module with a failing init returns that error and leaves
\* the module list unchanged; hooks other than init are invoked only on
\* modules of the list, so the rejected module receives no later call.
C24_FailedInitNotRegistered ==
    [][ /\ (result'.op = "register_module" =>
              /\ Len(trace') = 1
              /\ trace'[1].hook = "init"
              /\ (trace'[1].err # NoErr =>
                    /\ result'.tag = "Err"
                    /\ result'.err = trace'[1].err
                    /\ modules' = modules)
              /\ (trace'[1].err = NoErr => result'.tag = "Ok"))
        /\ \A k \in 1..Len(trace') :
              trace'[k].hook # "init" => trace'[k].module \in Range(modules')
        /\ (result'.op # "register_module" => modules' = modules) ]_vars

\* a second module was refused by its init while one module is registered
C24_Witness ==
    /\ result.op = "register_module"
    /\ result.tag = "Err"
    /\ trace = <<Entry("init", 2, 0, result.err)>>
    /\ modules = <<1>>

\* C25: in whole time units, a successful step() runs
\* floor(min(acc_before + dt, 8 * fixed_dt) / fixed_dt) FixedUpdate passes,
\* each pass takes fixed_dt off the accumulator, and the step leaves
\* 0 <= acc < fixed_dt, the remainder of that division, for the next step().
C25_FixedPassCount ==
    /\ (pc \in StepPcs =>
          acc + fixed_steps * FixedDt = Min(acc_in + dt, MaxFixedSteps * FixedDt))
    /\ (pc = "idle" /\ result.tag = "Frame" =>
          /\ result.fixed_steps =
                Min(acc_in + result.dt, MaxFixedSteps * FixedDt) \div FixedDt
          /\ acc = Min(acc_in + result.dt, MaxFixedSteps * FixedDt) % FixedDt
          /\ 0 <= acc
          /\ acc < FixedDt
          /\ result.alpha = acc
          /\ HookCount("fixed_update") = result.fixed_steps * Len(modules))

\* a step entered with a leftover ran two passes over a registered module
\* and left a leftover again
C25_Witness ==
    /\ pc = "idle"
    /\ result.tag = "Frame"
    /\ acc_in > 0
    /\ result.fixed_steps = 2
    /\ acc > 0
    /\ modules # <<>>

\* C26: frame_index advances by exactly one when step() returns a Frame,
\* which carries the value before the advance, and is unchanged by every
\* other step of the engine, in particular while a step() is running (so
\* all its hooks get the same frame_index) and when step() returns an error.
C26_FrameIndexAdvances ==
    [][ /\ (pc \in StepPcs /\ pc' = "idle" /\ result'.tag = "Frame" =>
              /\ frame_index' = frame_index + 1
              /\ result'.frame_index = frame_index)
        /\ (~(pc \in StepPcs /\ pc' = "idle" /\ result'.tag = "Frame") =>
              frame_index' = frame_index)
        /\ (result'.tag = "Frame" => result'.frame_index = frame_index' - 1) ]_vars

\* the second Frame was returned: it carries index 1 and the counter is 2
C26_Witness ==
    /\ pc = "idle"
    /\ result.tag = "Frame"
    /\ result.frame_index = 1
    /\ frame_index = 2
    /\ trace # <<>>

\* what a start() call has done so far: start hooks only, on modules[1],
\* modules[2], ... in that order, every hook before the last one Ok
StartOrder ==
    result.op = "start" =>
      /\ Len(trace) <= Len(modules)
      /\ \A k \in 1..Len(trace) :
            /\ trace[k].hook = "start"
            /\ trace[k].module = modules[k]
            /\ (k < Len(trace) => trace[k].err = NoErr)
      /\ (pc = "start" =>
            /\ idx = Len(trace) + 1
            /\ \A k \in 1..Len(trace) : trace[k].err = NoErr)
      /\ (pc = "idle" /\ result.tag = "Ok" =>
            /\ Len(trace) = Len(modules)
            /\ \A k \in 1..Len(trace) : trace[k].err = NoErr)
      /\ (pc = "idle" /\ result.tag = "Err" =>
            /\ trace # <<>>
            /\ Last(trace).err # NoErr
            /\ result.err = Last(trace).err)
      /\ (pc = "idle" => result.tag \in {"Ok", "Err"})

\* C27: Engine::start() invokes the start hooks in registration order and
\* returns the error of the first hook that fails; the modules after it are
\* not started, no other hook (no shutdown) is invoked on the modules
\* already started, and the module list is unchanged by start().
C27_StartStopsAtFirstFailure ==
    [][ /\ StartOrder'
        /\ (pc = "start" => modules' = modules) ]_vars

\* start() over three modules: the second hook failed with an error other
\* than ExitRequested, the third was not called, all three stay registered
C27_Witness ==
    /\ pc = "idle"
    /\ result.op = "start"
    /\ result.tag = "Err"
    /\ result.err[1] = "Other"
    /\ Len(trace) = 2
    /\ Len(modules) = 3

\* C28: between a load and the next shutdown the start hook of a loaded
\* plugin is invoked at most once: no start hook is invoked on a plugin
\* whose start has already returned Ok.
C28_StartAtMostOnce ==
    \A k \in 1..Len(plog) : plog[k].ev = "start" => plog[k].st # "Started"

\* C29: outside a running shutdown the ids of the loaded plugins are
\* pairwise distinct and the reserved id set is exactly the set of their
\* ids; a file whose init fails leaves the id set as it was, so a later
\* file reporting the same id is not taken for a duplicate.
C29_IdsMatchLoaded ==
    /\ \A i \in DOMAIN plugins, j \in DOMAIN plugins :
          i # j => plugins[i].id # plugins[j].id
    /\ (ppc # "shutdown_clear" => ids = {plugins[i].id : i \in DOMAIN plugins})
    /\ (ppc = "load" =>
          /\ pbefore.ids \subseteq ids
          /\ \A k \in 1..Len(plog) :
                plog[k].ev = "init" /\ ~plog[k].ok =>
                   \/ plog[k].id \notin ids
                   \/ \E j \in (k + 1)..Len(plog) :
                         plog[j].ev = "init" /\ plog[j].ok /\ plog[j].id = plog[k].id)

\* a scan in which the init of the first file failed and the second file,
\* reporting the same id, was loaded
C29_Witness ==
    /\ ppc = "load"
    /\ Len(plog) = 2
    /\ plog[1].ev = "init"
    /\ ~plog[1].ok
    /\ plog[2].ev = "init"
    /\ plog[2].ok
    /\ plog[2].id = plog[1].id
    /\ ids = {plog[2].id}
    /\ Len(plugins) = 1

\* a step that registers or removes a service
RegistryStep ==
    \/ \E id \in PluginServiceIds, svc \in PluginServices : RegisterService(id, svc)
    \/ \E id \in PluginServiceIds : RemoveService(id)
    \/ InitConsoleService

TableCall(d, line) ==
    [service_id |-> d.service_id, method |-> d.method,
     payload |-> IF d.payload = "Empty" THEN <<>>
                 ELSE Join(Tail(Tokens(line)), <<" ">>)]

\* exec of `line` in the current state follows the command table: a first
\* token the table holds leads to the call the table's entry describes (or
\* to "unknown service: <id>" when that service is not registered), whatever
\* the built-in table holds under that name
FollowsTable(line, e) ==
    LET head == Tokens(line)[1]
        d == MapGet(dyn_cmds, head).v
    IN  IF MapContains(services, d.service_id)
          THEN /\ e.calls # <<>>
               /\ e.calls[1] = TableCall(d, line)
          ELSE /\ ~e.stuck
               /\ e.tag = "Err"
               /\ e.out = Text(<<"u", "n", "k", "n", "o", "w", "n", " ", "s", "e", "r", "v", "i", "c", "e", ":", " ">> \o d.service_id)
               /\ e.calls = <<>>
               /\ e.st = RtState

\* C30: exec looks the first token of a line up in the service-derived
\* table first and in the built-in table only then: a token the
\* service-derived table holds makes the call declared there, also when a
\* built-in has that name; a token only the built-in table holds runs the
\* built-in; an empty line returns Ok with empty output; a token in neither
\* table returns Err "unknown command: <token>", calls no service and
\* changes nothing.
C30_ExecResolutionOrder ==
    rt_init /\ cpc = "idle" =>
      \A line \in Lines : \A e \in ExecOutcomes(line, {}, RtState) :
         LET toks == Tokens(line)
         IN  IF toks = <<>>
               THEN ~e.stuck /\ e.tag = "Ok" /\ e.out = Text(<<>>) /\ e.calls = <<>>
                    /\ e.st = RtState
             ELSE IF toks[1] \in Keys(dyn_cmds) THEN FollowsTable(line, e)
             ELSE IF toks[1] = <<"h", "e", "l", "p">>
               THEN ~e.stuck /\ e.tag = "Ok" /\ e.out = Text(HelpText(dyn_cmds))
                    /\ e.calls = <<>>
             ELSE IF toks[1] = <<"q", "u", "i", "t">>
               THEN ~e.stuck /\ e.tag = "Ok" /\ e.out = Text(<<"e", "x", "i", "t", " ", "r", "e", "q", "u", "e", "s", "t", "e", "d">>)
                    /\ e.st.exit /\ e.calls = <<>>
             ELSE IF toks[1] \in {<<"s", "e", "r", "v", "i", "c", "e", "s">>, <<"r", "e", "f", "r", "e", "s", "h">>, <<"d", "e", "s", "c", "r", "i", "b", "e">>}
               THEN ~e.stuck /\ e.calls = <<>>
             ELSE IF toks[1] = <<"c", "a", "l", "l">>
               THEN \A k \in 1..Len(e.calls) : Len(toks) >= 3 /\ e.calls[1].service_id = toks[2]
             ELSE ~e.stuck /\ e.tag = "Err" /\ e.out = Text(<<"u", "n", "k", "n", "o", "w", "n", " ", "c", "o", "m", "m", "a", "n", "d", ":", " ">> \o toks[1])
                  /\ e.calls = <<>> /\ e.st = RtState

\* the table holds nothing but a command named `help`, and the last exec
\* was resolved by the service-derived table and called one service
C30_Witness ==
    /\ cpc = "idle"
    /\ Keys(dyn_cmds) = {<<"h", "e", "l", "p">>}
    /\ clast.method = EXEC
    /\ clast.route = "dyn"
    /\ clast.ncalls = 1

\* the console commands the describe() document of service `id` declares:
\* the entries of its console.commands array that have a name, are service
\* calls and name a method
DeclaredEntries(id, svc) ==
    IF Describe(svc).json /\ Describe(svc).has_commands
      THEN {e \in Range(Describe(svc).commands) :
              /\ e.entry
              /\ (e.kind.some => e.kind.v = <<"s", "e", "r", "v", "i", "c", "e", "_", "c", "a", "l", "l">>)
              /\ e.method.some
              /\ e.method.v # <<>>}
      ELSE {}

\* the table `dyn` holds exactly the names the documents of the services
\* `svcs` declare, each with the target, method and payload mode of one of
\* its declarations
TableMatchesDocuments(dyn, svcs) ==
    /\ Keys(dyn) = UNION {{e.name : e \in DeclaredEntries(s.k, s.v)} : s \in svcs}
    /\ \A c \in dyn : \E s \in svcs : \E e \in DeclaredEntries(s.k, s.v) :
          /\ e.name = c.k
          /\ c.v.service_id = (IF e.service_id.some THEN e.service_id.v ELSE s.k)
          /\ c.v.method = e.method.v
          /\ c.v.payload = (IF e.payload.some /\ e.payload.v = <<"e", "m", "p", "t", "y">> THEN "Empty" ELSE "Raw")

\* exec, complete and suggest called in the current state answer from the
\* stored command table, not from the registry
AnswersFromTable ==
    rt_init /\ cpc = "idle" =>
      /\ \A line \in Lines :
            LET toks == Tokens(line)
            IN  toks # <<>> /\ toks[1] \notin Keys(Cmds) \ Keys(dyn_cmds) =>
                  \A e \in ExecOutcomes(line, {}, RtState) :
                     /\ (toks[1] \in Keys(dyn_cmds) => FollowsTable(line, e))
                     /\ (toks[1] \notin Keys(dyn_cmds) =>
                           /\ e.tag = "Err"
                           /\ e.out = Text(<<"u", "n", "k", "n", "o", "w", "n", " ", "c", "o", "m", "m", "a", "n", "d", ":", " ">> \o toks[1])
                           /\ e.calls = <<>>)
      /\ \A input \in Inputs :
            LET toks == Tokens(input)
                first == Len(toks) <= 1 /\ (input = <<>> \/ input[Len(input)] # " ")
                names == {k \in Keys(Cmds) \cup Keys(dyn_cmds) :
                            StartsWith(k, TokenOr(toks, 1))}
            IN  /\ first =>
                      \A r \in CompleteOutcomes(input, {}, RtState) :
                         ~r.stuck /\ Range(r.items) = names
                /\ first \/ toks[1] \notin Keys(Cmds) =>
                      \A r \in SuggestOutcomes(input, {}, RtState) :
                         /\ first => ~r.stuck /\ {i.display : i \in Range(r.sitems)} = names
                         /\ (~first /\ toks[1] \in Keys(dyn_cmds) =>
                               ~r.stuck /\ r.sig = MapGet(dyn_cmds, toks[1]).v.usage)
                         /\ (~first /\ toks[1] \notin Keys(dyn_cmds) =>
                               ~r.stuck /\ r.sig = <<>> /\ r.sitems = <<>>)

\* a step in which the registry or a describe() output changes and no
\* refresh runs
RegistryChanges ==
    \/ \E id \in PluginServiceIds, svc \in PluginServices : RegisterService(id, svc)
    \/ \E id \in PluginServiceIds : RemoveService(id)
    \/ \E id \in PluginServiceIds, svc \in PluginServices : DescribeChanges(id, svc)

\* C21: the command table changes only in a refresh: a step that changes it
\* leaves the table the current describe() documents declare, and a change
\* of the registry or of a describe() output leaves it as it is; a forced
\* refresh (the command.refresh method) leaves the table the current
\* documents declare; in between exec, complete and suggest answer from the
\* stored table.
C21_TableChangesOnlyOnRefresh ==
    /\ []AnswersFromTable
    /\ [][ /\ (dyn_cmds' # dyn_cmds => TableMatchesDocuments(dyn_cmds', services))
           /\ (dyn_cmds' # dyn_cmds => ~RegistryChanges)
           /\ (clast'.method = REFRESH /\ cpc' = "idle" /\ ConsoleCall(REFRESH, <<>>) =>
                 TableMatchesDocuments(dyn_cmds', services')) ]_vars

\* the last exec was resolved by the stored table and called a service,
\* although no registered service declares a command any more
C21_Witness ==
    /\ cpc = "idle"
    /\ clast.method = EXEC
    /\ clast.route = "dyn"
    /\ clast.ncalls >= 1
    /\ dyn_cmds # {}
    /\ \A s \in services : DeclaredEntries(s.k, s.v) = {}

\* C31: every console exec call returns: a line whose command calls a
\* service that re-enters the service registry or the console tables
\* completes, it does not block on the services mutex or the command-table
\* mutex the outer call holds.
C31_ExecReturns ==
    clast.method = EXEC => cpc = "idle"

\* C32: the command table a refresh produces is a function of the registry
\* contents: any two refreshes run over the services and describe()
\* documents of the current state yield the same table, also when two
\* services declare a console command of the same name.
C32_RefreshDeterministic ==
    \A a, b \in RefreshDynCommands({}, RtState) : a.dyn = b.dyn

\* the lines `call <service_id> <method> [payload]` given to exec
CallLines ==
    {line \in Lines : Len(Tokens(line)) >= 3 /\ Tokens(line)[1] = <<"c", "a", "l", "l">>}

\* the failures of the console's `call` command in the current state: an
\* unregistered id yields Err "unknown service: <id>" without a call; the
\* error strings of a plugin service come back as they are; a method the
\* CommandService does not know yields its "unknown method"; none of them
\* changes the console state
ConsoleFailures ==
    rt_init /\ cpc = "idle" =>
      \A line \in CallLines :
         LET toks == Tokens(line)
             sid == toks[2]
             call == [service_id |-> sid, method |-> toks[3],
                      payload |-> Join(SubSeq(toks, 4, Len(toks)), <<" ">>)]
             outs == ExecOutcomes(line, {}, RtState)
         IN  IF ~MapContains(services, sid)
               THEN outs = {ExecRet("Err", Text(<<"u", "n", "k", "n", "o", "w", "n", " ", "s", "e", "r", "v", "i", "c", "e", ":", " ">> \o sid), RtState, <<>>)}
             ELSE IF MapGet(services, sid).v # CommandServiceV
               THEN {e \in outs : e.tag # "Ok"}
                      = {ExecRet("Err", Text(r.bytes), RtState, <<call>>) :
                           r \in {q \in PluginReplies : ~q.ok}}
             ELSE toks[3] \notin {EXEC, COMPLETE, SUGGEST, REFRESH} =>
                    outs = {ExecRet("Err", Text(<<"u", "n", "k", "n", "o", "w", "n", " ", "m", "e", "t", "h", "o", "d">>), RtState, <<call>>)}

\* C33 as stated: on every route a failed service call is reported as data
\* and verbatim; calling an unregistered id yields "unknown service: <id>",
\* also through call_service_v1 of the default host API.
C33_Original ==
    /\ ConsoleFailures
    /\ \A id \in PluginServiceIds \cup {COMMAND_SERVICE_ID} :
          ~MapContains(services, id) =>
             DefaultCallServiceV1(id, PluginMethod, <<>>).out = Text(<<"u", "n", "k", "n", "o", "w", "n", " ", "s", "e", "r", "v", "i", "c", "e", ":", " ">> \o id)

\* C33: a failed service call is reported to the caller as data and
\* verbatim and changes neither the registry nor the console state: through
\* the console an unregistered id yields "unknown service: <id>" and a
\* method the service does not know yields the service's own error string
\* unchanged; call_service_v1 of the default host API answers every call,
\* whatever the id, with the error "service not found".
C33_FailuresAreData ==
    /\ ConsoleFailures
    /\ \A id \in PluginServiceIds \cup {COMMAND_SERVICE_ID} :
          /\ DefaultCallServiceV1(id, PluginMethod, <<>>).rtag = "RErr"
          /\ DefaultCallServiceV1(id, PluginMethod, <<>>).out = Text(<<"s", "e", "r", "v", "i", "c", "e", " ", "n", "o", "t", " ", "f", "o", "u", "n", "d">>)

\* the last exec ran the built-in `call`, reached one service and came
\* back as an error, while another id is not registered
C33_Witness ==
    /\ cpc = "idle"
    /\ clast.method = EXEC
    /\ clast.route = "builtin"
    /\ clast.ncalls = 1
    /\ ~clast.ok
    /\ \E id \in PluginServiceIds : ~MapContains(services, id)

\* the ids of the requests in the pending queue
QueuedIds == {a_queue[i].id : i \in 1..Len(a_queue)}

\* C34: load enqueues at most one request per asset id: while the id's
\* state is Loading, Ready or Failed, load returns that id, enqueues nothing
\* and changes no state; a load of a path without extension, or with an
\* extension no importer is registered for, fails and leaves the state map
\* and the queue as they are; the pending queue never holds two requests
\* for the same id.
C34_OneRequestPerId ==
    /\ [](Cardinality(QueuedIds) = Len(a_queue))
    /\ [][\A key \in AssetKeys : Load(key) =>
            LET s == StateOf(a_state, KeyId(key))
                ext == PathExtension(key)
                bound == ext.some /\ \E e \in importers_by_ext :
                                      e.k = ToAsciiLowercase(ext.v) /\ e.v # <<>>
            IN  /\ (s.tag \in {"Loading", "Ready", "Failed"} =>
                      /\ alast'.tag = "Ok" /\ alast'.id = KeyId(key)
                      /\ UNCHANGED <<a_state, a_queue, blobs, a_events>>)
                /\ (s.tag = "Unloaded" /\ (~ext.some \/ ext.v = <<>> \/ ~bound) =>
                      /\ alast'.tag = "Err"
                      /\ UNCHANGED <<a_state, a_queue, blobs, a_events>>)
                /\ (s.tag = "Unloaded" /\ ext.some /\ ext.v # <<>> /\ bound =>
                      /\ alast'.tag = "Ok" /\ alast'.id = KeyId(key)
                      /\ Len(a_queue') = Len(a_queue) + 1
                      /\ a_queue'[Len(a_queue')].id = KeyId(key)
                      /\ StateOf(a_state', KeyId(key)) = Loading) ]_vars

\* the last load asked for an asset that had failed before: it returned
\* the id and enqueued nothing
C34_Witness ==
    /\ alast.op = "load"
    /\ alast.tag = "Ok"
    /\ ~alast.queued
    /\ StateOf(a_state, alast.id).tag = "Failed"
    /\ a_queue # <<>>

\* sequence a is a prefix of sequence b
IsPrefix(a, b) == Len(a) <= Len(b) /\ SubSeq(b, 1, Len(a)) = a

\* the step in which pump finishes the request it dequeued
TerminalStep == apc = "process" /\ apc' = "loop"

\* C35: pump(budget) dequeues at most budget.steps requests per call, in
\* the order they were enqueued; each dequeued request ends in exactly one
\* terminal transition, Loading to Ready with the blob stored and one Ready
\* event queued, or Loading to Failed with one Failed event queued and no
\* blob; an asset never leaves Ready or Failed; and when pump keeps being
\* called, every enqueued request reaches Ready or Failed.
C35_PumpBudgetAndTerminal ==
    /\ [](popped <= budget /\ IsPrefix(deq, enq))
    /\ [][ /\ (TerminalStep =>
                /\ StateOf(a_state, req.id) = Loading
                /\ StateOf(a_state', req.id).tag \in {"Ready", "Failed"}
                /\ \A id \in AssetKeys : id # req.id => StateOf(a_state', id) = StateOf(a_state, id)
                /\ Len(a_events') = Len(a_events) + 1
                /\ SubSeq(a_events', 1, Len(a_events)) = a_events
                /\ a_events'[Len(a_events')].kind = StateOf(a_state', req.id).tag
                /\ a_events'[Len(a_events')].id = req.id
                /\ (StateOf(a_state', req.id).tag = "Ready" => blobs' = blobs \cup {req.id})
                /\ (StateOf(a_state', req.id).tag = "Failed" =>
                       blobs' = blobs /\ req.id \notin blobs))
           /\ (~TerminalStep =>
                \A id \in AssetKeys :
                   /\ StateOf(a_state', id).tag \in {"Ready", "Failed"} =>
                         StateOf(a_state', id) = StateOf(a_state, id)
                   /\ (id \in blobs' <=> id \in blobs))
           /\ \A id \in AssetKeys :
                StateOf(a_state, id).tag \in {"Ready", "Failed"} =>
                   StateOf(a_state', id) = StateOf(a_state, id) ]_vars
    /\ \A id \in AssetKeys :
          (StateOf(a_state, id).tag = "Loading")
             ~> (StateOf(a_state, id).tag \in {"Ready", "Failed"})

\* a pump with a budget of one step is about to return after one request,
\* which is Ready, and leaves the next request in the queue
C35_Witness ==
    /\ apc = "loop"
    /\ steps_left = 0
    /\ budget = 1
    /\ popped = 1
    /\ a_queue # <<>>
    /\ deq # <<>>
    /\ StateOf(a_state, deq[Len(deq)]).tag = "Ready"
    /\ deq[Len(deq)] \in blobs

\* C36: in the engine_core engine a modules_shutdown call invokes the
\* shutdown hook of every module, from the last registered to the first,
\* whether or not a hook fails.
C36_ShutdownReverseAll ==
    shut_last.called =>
        shut_last.order = [i \in 1..Len(ec_modules) |->
                              ec_modules[Len(ec_modules) - i + 1]]

\* C37: in the engine_core engine, whatever window events, Ctrl-C signals
\* and ticks arrive, the shutdown hook of a module is invoked at most once,
\* and a module whose shutdown hook has run gets no on_event, update,
\* fixed_update or render call any more.
C37_ShutdownOnceThenSilent ==
    /\ \A m \in 1..NumModules : shut_runs[m] <= 1
    /\ ec_late = {}

\* C38: in the winit platform loop, once step() has returned an error
\* (ExitRequested or any other) or the window has been closed, no step()
\* call is made any more, and run_winit_app has called Engine::shutdown
\* exactly once when it returns.
C38_ExitEndsStepsAndShutsDown ==
    /\ [](w_phase = "returned" => w_shutdowns = 1)
    /\ [][(w_phase = "exiting" \/ w_phase = "returned")
             => (pc' = "idle" /\ result' = result)]_vars

\* the items of producer p that the channel has taken, as p numbered them
TakenOf(p) == {by[i].k : i \in {i \in 1..Len(by) : by[i].p = p}}

\* C39: while producers send from their threads and the one consumer
\* receives, every item whose send succeeded is either still in the queue
\* or was handed to the consumer, once; the consumer gets the items in the
\* order the channel took them, and the items of one producer in the order
\* that producer sent them.
C39_DeliveredOnceInProducerOrder ==
    /\ [](/\ Len(by) = sent
          /\ queue = [i \in 1..Len(queue) |-> sent - Len(queue) + i]
          /\ \A i, j \in 1..Len(by) : i < j /\ by[i].p = by[j].p => by[i].k < by[j].k
          /\ \A p \in Producers : TakenOf(p) = 1..Cardinality(TakenOf(p))
          /\ \A t \in Threads :
                th[t].op \in Drains =>
                    th[t].out = [i \in 1..Len(th[t].out) |->
                                   sent - Len(queue) - Len(th[t].out) + i])
    /\ [][/\ \A t \in Threads :
               th[t].pc = "recv" /\ th'[t] # th[t] /\ queue # <<>>
               => /\ queue' = Tail(queue)
                  /\ IF th[t].op = "try_recv"
                       THEN blast' = BRet("try_recv", "Some", Head(queue))
                       ELSE th'[t].out = Append(th[t].out, Head(queue))
          /\ Len(queue') < Len(queue)
               => \E t \in Threads : th[t].pc = "recv" /\ th'[t] # th[t]]_vars

\* on a channel of one slot a drain has collected two items of one
\* producer: the second was sent while the drain was running
C39_Witness ==
    /\ cap = 1
    /\ th[1].op = "drain"
    /\ th[1].out = <<1, 2>>
    /\ by = <<[p |-> 1, k |-> 1], [p |-> 1, k |-> 2]>>

InitCore ==
    /\ modules = <<>>
    /\ exit_requested = FALSE
    /\ frame_index = 0
    /\ acc = 0
    /\ pc = "idle"
    /\ idx = 0
    /\ fixed_steps = 0
    /\ dt = 0
    /\ trace = <<>>
    /\ result = Result("new", "Ok", NoErr)
    /\ acc_in = 0
    /\ after_exit = FALSE
    /\ event = 0
    /\ map = {}
    /\ rlast = RRet("default", 0, 0, "", "Unit", 0, NoErr)

\* PluginManager::new
PluginsNew ==
    /\ plugins = <<>>
    /\ started = FALSE
    /\ ids = {}
    /\ ppc = "idle"
    /\ pidx = 0
    /\ libs = <<>>
    /\ dir = <<>>
    /\ plog = <<>>
    /\ presult = [op |-> "new", tag |-> "Ok", err |-> "", was_started |-> FALSE]
    /\ pbefore = NoBefore
    /\ loads = 0

Init ==
    /\ InitCore
    /\ BusNew(0, TRUE)
    /\ PluginsNew
    /\ HostContextNew
    /\ AssetStoreNew
    /\ CoreEngineNew
    /\ WinitAppNew
    /\ ProducersNew

NextEngine ==
    \/ RequestExit
    \/ \E o \in Outcomes : RegisterModule(o)
    \/ StartBegin
    \/ \E o \in Outcomes : StartHook(o)
    \/ StartDone
    \/ \E d \in DtValues : StepBegin(d)
    \/ FixedHead
    \/ \E o \in Outcomes : FixedUpdateHook(o)
    \/ FixedUpdateDone
    \/ \E o \in Outcomes : UpdateHook(o)
    \/ UpdateDone
    \/ \E o \in Outcomes : RenderHook(o)
    \/ RenderDone
    \/ \E ev \in Events : DispatchBegin(ev)
    \/ \E o \in Outcomes : EventHook(o)
    \/ EventDone
    \/ ShutdownBegin
    \/ \E o \in Outcomes : ShutdownHook(o)
    \/ ShutdownDone

SpecEngine == Init /\ [][NextEngine]_vars

NextResources ==
    \/ \E k \in Types, v \in Values : Insert(k, v)
    \/ \E k \in Types, v \in Values : InsertOnce(k, v)
    \/ \E k \in Types : Get(k)
    \/ \E k \in Types, w \in Values : GetMut(k, w)
    \/ \E k \in Types, name \in Names : GetRequired(k, name)
    \/ \E k \in Types : Contains(k)
    \/ \E k \in Types : Remove(k)
    \/ \E k \in Types, name \in Names : TakeRequired(k, name)

SpecResources == Init /\ [][NextResources]_vars
\* the Bus over any channel, in a debug or a release build
InitBus ==
    /\ InitCore
    /\ \E c \in Capacities, d \in BOOLEAN : BusNew(c, d)
    /\ PluginsNew
    /\ HostContextNew
    /\ AssetStoreNew
    /\ CoreEngineNew
    /\ WinitAppNew
    /\ ProducersNew

NextBus ==
    \/ TrySend
    \/ Send
    \/ SendResume
    \/ \E t \in Threads, op \in ConsumerOps : ConsumerBegin(t, op)
    \/ \E t \in Threads : GuardCas(t)
    \/ \E t \in Threads : Recv(t)

SpecBus == InitBus /\ [][NextBus]_vars
NextPlugins ==
    \/ \E d \in Dirs : LoadDirBegin(d)
    \/ LoadDirFails
    \/ \E ok \in BOOLEAN : LoadFile(ok)
    \/ LoadDirDone
    \/ \E op \in BatchOps : BatchBegin(op)
    \/ \E ok \in BOOLEAN : BatchHook(ok)
    \/ BatchDone
    \/ PluginsShutdownBegin
    \/ PluginsShutdownHook
    \/ PluginsClear
    \/ PluginsShutdownDone

SpecPlugins == Init /\ [][NextPlugins]_vars

NextConsole ==
    \/ \E id \in PluginServiceIds, svc \in PluginServices : RegisterService(id, svc)
    \/ \E id \in PluginServiceIds : RemoveService(id)
    \/ \E id \in PluginServiceIds, svc \in PluginServices : DescribeChanges(id, svc)
    \/ InitConsoleService
    \/ \E r \in Requests : ConsoleCall(r[1], r[2])
    \/ TakeExitRequested

SpecConsole == Init /\ [][NextConsole]_vars

NextAssets ==
    \/ AddSource
    \/ \E imp \in Importers : AddImporter(imp)
    \/ \E key \in AssetKeys : Load(key)
    \/ \E steps \in 0..MaxBudget : PumpBegin(steps)
    \/ PumpPop
    \/ \E read \in ReadResults, import \in ImportResults : ProcessOne(read, import)

SpecAssets == Init /\ [][NextAssets]_vars

\* pump is called again and again with a budget of at least one step (the
\* AssetManager clamps its budget with max(1)), and a call that has begun
\* goes on: the sources and the importers return
PumpCalled == \E steps \in 1..MaxBudget : PumpBegin(steps)
Processed == \E read \in ReadResults, import \in ImportResults : ProcessOne(read, import)

SpecAssetsLive ==
    /\ Init
    /\ [][NextAssets]_vars
    /\ SF_vars(PumpCalled)
    /\ WF_vars(PumpPop)
    /\ WF_vars(Processed)

NextCoreApp ==
    \/ AddModule
    \/ Run
    \/ CtrlC
    \/ \E f \in FailPoints : Resumed(f)
    \/ \E e \in WindowEvents, f \in FailPoints : WindowEvent(e, f)
    \/ \E d \in DtValues, sig \in BOOLEAN, f \in FailPoints : AboutToWait(d, sig, f)

SpecCoreApp == Init /\ [][NextCoreApp]_vars

NextWinit ==
    \/ \E o \in Outcomes : WinitRegister(o)
    \/ RunWinitApp
    \/ \E x \in BOOLEAN : WinitResumed(x)
    \/ \E e \in WinitEvents, x \in BOOLEAN : WinitWindowEvent(e, x)
    \/ \E d \in DtValues : WinitAboutToWait(d)
    \/ FixedHead
    \/ \E o \in Outcomes : FixedUpdateHook(o)
    \/ FixedUpdateDone
    \/ \E o \in Outcomes : UpdateHook(o)
    \/ UpdateDone
    \/ \E o \in Outcomes : RenderHook(o)
    \/ RenderDone
    \/ WinitStepMatched
    \/ WinitReturn

SpecWinit == Init /\ [][NextWinit]_vars

\* producers on their own threads, and thread 1 as the bus's only consumer
NextBusProducers ==
    \/ \E p \in Producers : ProducerTrySend(p)
    \/ \E p \in Producers : ProducerSend(p)
    \/ \E p \in Producers : ProducerResume(p)
    \/ \E op \in ConsumerOps : ConsumerBegin(1, op)
    \/ GuardCas(1)
    \/ Recv(1)

SpecBusProducers == InitBus /\ [][NextBusProducers]_vars
====
